---- MODULE Spec2Model ----
(***************************************************************************)
(* Checklist classification, parsing, guidance resolution and item         *)
(* answering of checksupport/fill_checklist.py.                            *)
(*                                                                         *)
(* A Python str is a sequence of one-character strings, so that lower(),   *)
(* strip(), split(), startswith(), `in` and count() are computed           *)
(* character by character as the interpreter computes them.                *)
(***************************************************************************)
EXTENDS Integers, Sequences, FiniteSets, TLC

VARIABLES
    pc,              \* position of the operation under analysis
    content,         \* raw checklist text handed to the classifier / parser
    checklist_type,  \* result of detect_checklist_type
    path,            \* parsing path that produced `sections`
    sections,        \* list of section dicts
    general_guidance,\* preprocess_checklist: the general guidance it returns
    sec_i,           \* preprocess_checklist: index i of the section loop
    calls,           \* the requests.post calls made so far, with their outcomes
    section,         \* generate_section_answers: the section dict it is given
    manuscript_text, \* the manuscript text, as runs of equal characters
    section_text,    \* result of extract_section_text, as runs
    item_pos,        \* generate_section_answers: position of the item loop
    section_answers, \* generate_section_answers: the answer records so far
    manuscript_file, \* main: the file at args.manuscript
    checklist_file,  \* main: the file at args.checklist
    all_section_answers, \* main: the answer lists of the sections done
    renders,         \* main: the create_pdf calls made so far
    exit_code        \* main: "running", or the exit status of the process

vars ==
    <<pc, content, checklist_type, path, sections, general_guidance, sec_i, calls,
      section, manuscript_text, section_text, item_pos, section_answers,
      manuscript_file, checklist_file, all_section_answers, renders, exit_code>>

parseVars == <<content, checklist_type, path>>

guidanceVars == <<general_guidance, sec_i>>

answerVars == <<section, manuscript_text, section_text, item_pos, section_answers>>

runVars == <<manuscript_file, checklist_file, all_section_answers, renders, exit_code>>

(***************************************************************************)
(* Characters and the str methods the code uses                            *)
(***************************************************************************)
UPPER ==
    <<"A", "B", "C", "D", "E", "F", "G", "H", "I", "J", "K", "L", "M",
      "N", "O", "P", "Q", "R", "S", "T", "U", "V", "W", "X", "Y", "Z">>

LOWER ==
    <<"a", "b", "c", "d", "e", "f", "g", "h", "i", "j", "k", "l", "m",
      "n", "o", "p", "q", "r", "s", "t", "u", "v", "w", "x", "y", "z">>

UpperSet == {UPPER[k] : k \in DOMAIN UPPER}

LowerSet == {LOWER[k] : k \in DOMAIN LOWER}

\* str.isspace() on one character (the ASCII whitespace str.strip() removes)
Whitespace == {" ", "\t", "\n", "\r", "\f"}

LowerMap == [c \in UpperSet |-> LOWER[CHOOSE k \in DOMAIN UPPER : UPPER[k] = c]]

ToLowerChar(c) == IF c \in UpperSet THEN LowerMap[c] ELSE c

\* str.lower()
lower(s) == [k \in 1..Len(s) |-> ToLowerChar(s[k])]

\* s[i:i+len(sub)] == sub, 1-based
MatchesAt(s, sub, i) ==
    /\ i + Len(sub) - 1 <= Len(s)
    /\ \A j \in 1..Len(sub) : s[i + j - 1] = sub[j]

\* str.find(sub), 1-based; 0 when sub does not occur
find(s, sub) ==
    LET hits == {i \in 1..(Len(s) - Len(sub) + 1) : MatchesAt(s, sub, i)}
    IN  IF hits = {} THEN 0 ELSE CHOOSE i \in hits : \A h \in hits : i <= h

\* sub in s
contains(s, sub) == find(s, sub) # 0

\* str.count(c) for a one-character c
count(s, c) == Cardinality({k \in 1..Len(s) : s[k] = c})

\* str.startswith(prefix)
startswith(s, prefix) == MatchesAt(s, prefix, 1)

\* str.endswith(suffix)
endswith(s, suffix) ==
    Len(suffix) <= Len(s) /\ MatchesAt(s, suffix, Len(s) - Len(suffix) + 1)

\* str.strip()
strip(s) ==
    LET keep == {k \in 1..Len(s) : s[k] \notin Whitespace}
    IN  IF keep = {} THEN <<>>
        ELSE LET first == CHOOSE k \in keep : \A h \in keep : k <= h
                 last  == CHOOSE k \in keep : \A h \in keep : k >= h
             IN  SubSeq(s, first, last)

\* str.split(sep, 1): one or two parts
split1(s, sep) ==
    LET at == find(s, sep)
    IN  IF at = 0 THEN <<s>>
        ELSE <<SubSeq(s, 1, at - 1), SubSeq(s, at + Len(sep), Len(s))>>

\* str.split(sep) for a non-empty sep: "" splits to [""]
RECURSIVE split(_, _)
split(s, sep) ==
    LET at == find(s, sep)
    IN  IF at = 0 THEN <<s>>
        ELSE <<SubSeq(s, 1, at - 1)>> \o split(SubSeq(s, at + Len(sep), Len(s)), sep)

\* concatenation of a list of strings
RECURSIVE Concat(_)
Concat(parts) == IF parts = <<>> THEN <<>> ELSE Head(parts) \o Concat(Tail(parts))

(***************************************************************************)
(* String literals of fill_checklist.py                                    *)
(***************************************************************************)
STR_prisma ==
    <<"p", "r", "i", "s", "m", "a">>
STR_systematic_review ==
    <<"s", "y", "s", "t", "e", "m", "a", "t", "i", "c", " ", "r", "e", "v", "i", "e", "w">>
STR_meta_analysis ==
    <<"m", "e", "t", "a", "-", "a", "n", "a", "l", "y", "s", "i", "s">>
STR_stard ==
    <<"s", "t", "a", "r", "d">>
STR_diagnostic_accuracy ==
    <<"d", "i", "a", "g", "n", "o", "s", "t", "i", "c", " ", "a", "c", "c", "u", "r", "a", "c", "y">>
STR_consort ==
    <<"c", "o", "n", "s", "o", "r", "t">>
STR_randomized ==
    <<"r", "a", "n", "d", "o", "m", "i", "z", "e", "d">>
STR_coloncolon ==
    <<":", ":">>
STR_colon ==
    <<":">>
STR_hash ==
    <<"#">>
STR_newline ==
    <<"\n">>
STR_General ==
    <<"G", "e", "n", "e", "r", "a", "l">>
DEFAULT_GUIDANCE ==
    <<"E", "x", "t", "r", "a", "c", "t", " ", "i", "n", "f", "o", "r", "m", "a", "t", "i", "o", "n", " ",
      "r", "e", "l", "a", "t", "e", "d", " ", "t", "o", " ", "t", "h", "i", "s", " ",
      "s", "e", "c", "t", "i", "o", "n", " ", "f", "r", "o", "m", " ", "t", "h", "e", " ",
      "m", "a", "n", "u", "s", "c", "r", "i", "p", "t", ".">>
DEFAULT_INSTRUCTION ==
    <<"A", "n", "s", "w", "e", "r", " ", "b", "a", "s", "e", "d", " ", "o", "n", " ", "t", "h", "e", " ",
      "m", "a", "n", "u", "s", "c", "r", "i", "p", "t", " ", "t", "e", "x", "t", ".">>

\* content.count("#") > 5
HashThreshold == 5

(***************************************************************************)
(* detect_checklist_type                                                   *)
(***************************************************************************)
detect_checklist_type_ge(text) ==
    LET content_lower == lower(text)
    IN  IF /\ contains(content_lower, STR_prisma)
           /\ \/ contains(content_lower, STR_systematic_review)
              \/ contains(content_lower, STR_meta_analysis)
        THEN "PRISMA"
        ELSE IF contains(content_lower, STR_stard) /\ contains(content_lower, STR_diagnostic_accuracy)
        THEN "STARD"
        ELSE IF contains(content_lower, STR_consort) /\ contains(content_lower, STR_randomized)
        THEN "CONSORT"
        ELSE IF contains(text, STR_coloncolon) \/ count(text, "#") >= HashThreshold
        THEN "custom"
        ELSE "generic"

detect_checklist_type(text) ==
    LET content_lower == lower(text)
    IN  IF /\ contains(content_lower, STR_prisma)
           /\ \/ contains(content_lower, STR_systematic_review)
              \/ contains(content_lower, STR_meta_analysis)
        THEN "PRISMA"
        ELSE IF contains(content_lower, STR_stard) /\ contains(content_lower, STR_diagnostic_accuracy)
        THEN "STARD"
        ELSE IF contains(content_lower, STR_consort) /\ contains(content_lower, STR_randomized)
        THEN "CONSORT"
        ELSE IF contains(text, STR_coloncolon) \/ count(text, "#") > HashThreshold
        THEN "custom"
        ELSE "generic"

(***************************************************************************)
(* More str methods and re.search, as the parsers use them                 *)
(***************************************************************************)
\* str.isupper(): at least one cased character and no lower-case one
isupper(s) ==
    /\ \E k \in 1..Len(s) : s[k] \in UpperSet
    /\ \A k \in 1..Len(s) : s[k] \notin LowerSet

\* str.istitle(): upper case only after an uncased character, lower case only
\* after a cased one, and at least one cased character
istitle(s) ==
    LET cased(k) == s[k] \in UpperSet \/ s[k] \in LowerSet
    IN  /\ \E k \in 1..Len(s) : cased(k)
        /\ \A k \in 1..Len(s) :
               /\ s[k] \in UpperSet => (k = 1 \/ ~cased(k - 1))
               /\ s[k] \in LowerSet => (k > 1 /\ cased(k - 1))

\* str.split()[0] of a string that has a non-whitespace character
first_token(s) ==
    LET start == CHOOSE k \in 1..Len(s) :
                     s[k] \notin Whitespace /\ \A h \in 1..(k - 1) : s[h] \in Whitespace
        stops == {k \in start..Len(s) : s[k] \in Whitespace}
        stop  == IF stops = {} THEN Len(s) + 1
                 ELSE CHOOSE k \in stops : \A h \in stops : k <= h
    IN  SubSeq(s, start, stop - 1)

\* A regular expression is a sequence of elements: a literal character, or
\* "\\s+" (one or more whitespace characters). re.IGNORECASE compares letters
\* without case.
RE_WS == "\\s+"

RECURSIVE re_match_at(_, _, _, _)
re_match_at(s, i, pattern, k) ==
    IF k > Len(pattern) THEN TRUE
    ELSE IF i > Len(s) THEN FALSE
    ELSE IF pattern[k] = RE_WS
         THEN /\ s[i] \in Whitespace
              /\ \/ re_match_at(s, i + 1, pattern, k)
                 \/ re_match_at(s, i + 1, pattern, k + 1)
         ELSE /\ ToLowerChar(s[i]) = ToLowerChar(pattern[k])
              /\ re_match_at(s, i + 1, pattern, k + 1)

\* re.search(pattern, s, re.IGNORECASE) is not None
re_search(pattern, s) == \E i \in 1..(Len(s) + 1) : re_match_at(s, i, pattern, 1)

(***************************************************************************)
(* process_prisma_checklist                                                *)
(***************************************************************************)
section_patterns ==
    << <<"T", "i", "t", "l", "e", "\\s+", "a", "n", "d", "\\s+", "A", "b", "s", "t", "r", "a", "c", "t">>,
       <<"I", "n", "t", "r", "o", "d", "u", "c", "t", "i", "o", "n">>,
       <<"M", "e", "t", "h", "o", "d", "s">>,
       <<"R", "e", "s", "u", "l", "t", "s">>,
       <<"D", "i", "s", "c", "u", "s", "s", "i", "o", "n">>,
       <<"F", "u", "n", "d", "i", "n", "g">> >>

\* Optional value: None is the empty sequence, a value v is <<v>>
None == <<>>

Some(v) == <<v>>

\* truth value of an optional str: None and "" are false
truthy(opt) == opt # None /\ opt[1] # <<>>

\* a section dict
Section(name, items, guidance) == [section |-> name, items |-> items, guidance |-> guidance]

\* an item that is a plain str (PRISMA path) and an item dict (other paths)
StrItem(text) == [str |-> text]

DictItem(text, instruction) == [text |-> text, instruction |-> instruction]

\* sections[-1]["items"].append(item)
append_to_last(secs, item) ==
    [secs EXCEPT ![Len(secs)].items = Append(@, item)]

\* the header test with re.match in the place of re.search
prisma_is_section_header_match(line) ==
    \E n \in 1..Len(section_patterns) : re_match_at(line, 1, section_patterns[n], 1)

prisma_is_section_header(line) ==
    \E n \in 1..Len(section_patterns) : re_search(section_patterns[n], line)

\* the loop body with the '#' marker dropped from the item text together
\* with the item number that follows it
prisma_step_unnumbered(st, raw) ==
    LET line == strip(raw)
    IN  IF line = <<>> THEN st
        ELSE IF prisma_is_section_header(line)
        THEN [sections |-> Append(st.sections, Section(line, <<>>, DEFAULT_GUIDANCE)),
              current_section |-> Some(line)]
        ELSE IF truthy(st.current_section) /\ contains(line, STR_hash)
        THEN LET after     == strip(split1(line, STR_hash)[2])
                 item_text == strip(SubSeq(after, Len(first_token(after)) + 1, Len(after)))
             IN  IF st.sections # <<>>
                 THEN [st EXCEPT !.sections = append_to_last(@, StrItem(item_text))]
                 ELSE st
        ELSE IF truthy(st.current_section) /\ line # <<>>
        THEN IF st.sections # <<>> /\ line # <<>>
             THEN [st EXCEPT !.sections = append_to_last(@, StrItem(line))]
             ELSE st
        ELSE st

\* one iteration of the for loop; st = [sections, current_section]
prisma_step(st, raw) ==
    LET line == strip(raw)
    IN  IF line = <<>> THEN st
        ELSE IF prisma_is_section_header(line)
        THEN [sections |-> Append(st.sections, Section(line, <<>>, DEFAULT_GUIDANCE)),
              current_section |-> Some(line)]
        ELSE IF truthy(st.current_section) /\ contains(line, STR_hash)
        THEN LET item_text == strip(split1(line, STR_hash)[2])
             IN  IF st.sections # <<>>
                 THEN [st EXCEPT !.sections = append_to_last(@, StrItem(item_text))]
                 ELSE st
        ELSE IF truthy(st.current_section) /\ line # <<>>
        THEN IF st.sections # <<>> /\ line # <<>>
             THEN [st EXCEPT !.sections = append_to_last(@, StrItem(line))]
             ELSE st
        ELSE st

RECURSIVE prisma_loop(_, _, _)
prisma_loop(lines, k, st) ==
    IF k > Len(lines) THEN st ELSE prisma_loop(lines, k + 1, prisma_step(st, lines[k]))

process_prisma_checklist(text) ==
    prisma_loop(split(text, STR_newline), 1,
                [sections |-> <<>>, current_section |-> None]).sections

(***************************************************************************)
(* process_custom_checklist                                                *)
(***************************************************************************)
\* len(item_text.split(':', 1)[0]) < 30
SectionNameLimit == 30

\* "if items and current_section": the flush at a new section header
custom_flush(st) ==
    IF st.items # <<>> /\ st.current_section # <<>>
    THEN [st EXCEPT !.sections = Append(@, Section(st.current_section, st.items, DEFAULT_GUIDANCE)),
                    !.items = <<>>]
    ELSE st

\* one iteration of the for loop; st = [sections, current_section, items]
custom_step(st, raw) ==
    LET line == strip(raw)
    IN  IF line = <<>> \/ startswith(line, STR_hash) THEN st
        ELSE IF contains(line, STR_coloncolon)
        THEN LET parts       == split1(line, STR_coloncolon)
                 item_text   == strip(parts[1])
                 instruction == strip(parts[2])
                 is_new      == /\ contains(item_text, STR_colon)
                                /\ Len(split1(item_text, STR_colon)[1]) < SectionNameLimit
                 section_name == strip(split1(item_text, STR_colon)[1])
                 st1 == IF is_new
                        THEN [custom_flush(st) EXCEPT !.current_section = section_name]
                        ELSE st
             IN  [st1 EXCEPT !.items = Append(@, DictItem(item_text, instruction))]
        ELSE [st EXCEPT !.items = Append(@, DictItem(line, DEFAULT_INSTRUCTION))]

RECURSIVE custom_loop(_, _, _)
custom_loop(lines, k, st) ==
    IF k > Len(lines) THEN st ELSE custom_loop(lines, k + 1, custom_step(st, lines[k]))

\* the last section appended without the "if items:" test
flush_last_unguarded(st) ==
    Append(st.sections, Section(st.current_section, st.items, DEFAULT_GUIDANCE))

\* "if items:" after the loop
flush_last(st) ==
    IF st.items # <<>>
    THEN Append(st.sections, Section(st.current_section, st.items, DEFAULT_GUIDANCE))
    ELSE st.sections

process_custom_checklist(text) ==
    flush_last(custom_loop(split(text, STR_newline), 1,
                           [sections |-> <<>>, current_section |-> STR_General, items |-> <<>>]))

(***************************************************************************)
(* process_generic_checklist, process_stard_checklist,                     *)
(* process_consort_checklist                                               *)
(***************************************************************************)
\* len(line) < 50
HeaderLenLimit == 50

generic_is_section_header(line) ==
    \/ isupper(line)
    \/ endswith(line, STR_colon)
    \/ (Len(line) < HeaderLenLimit /\ istitle(first_token(line)))

\* the loop body with the flushed section named by the new header line
generic_step_new_name(st, raw) ==
    LET line == strip(raw)
    IN  IF line = <<>> THEN st
        ELSE IF generic_is_section_header(line)
        THEN IF st.items # <<>>
             THEN [sections |-> Append(st.sections, Section(line, st.items, DEFAULT_GUIDANCE)),
                   current_section |-> line,
                   items |-> <<>>]
             ELSE [st EXCEPT !.current_section = line]
        ELSE [st EXCEPT !.items = Append(@, DictItem(line, DEFAULT_INSTRUCTION))]

\* one iteration of the for loop; st = [sections, current_section, items]
generic_step(st, raw) ==
    LET line == strip(raw)
    IN  IF line = <<>> THEN st
        ELSE IF generic_is_section_header(line)
        THEN IF st.items # <<>>
             THEN [sections |-> Append(st.sections,
                                       Section(st.current_section, st.items, DEFAULT_GUIDANCE)),
                   current_section |-> line,
                   items |-> <<>>]
             ELSE [st EXCEPT !.current_section = line]
        ELSE [st EXCEPT !.items = Append(@, DictItem(line, DEFAULT_INSTRUCTION))]

RECURSIVE generic_loop(_, _, _)
generic_loop(lines, k, st) ==
    IF k > Len(lines) THEN st ELSE generic_loop(lines, k + 1, generic_step(st, lines[k]))

process_generic_checklist(text) ==
    flush_last(generic_loop(split(text, STR_newline), 1,
                            [sections |-> <<>>, current_section |-> STR_General, items |-> <<>>]))

\* the STARD path handing the text to the CUSTOM parser
process_stard_checklist_custom(text) == process_custom_checklist(text)

process_stard_checklist(text) == process_generic_checklist(text)

process_consort_checklist(text) == process_generic_checklist(text)

(***************************************************************************)
(* process_checklist_content                                               *)
(***************************************************************************)
process_checklist_content(text) ==
    LET type == detect_checklist_type(text)
    IN  IF type = "PRISMA" THEN process_prisma_checklist(text)
        ELSE IF type = "STARD" THEN process_stard_checklist(text)
        ELSE IF type = "CONSORT" THEN process_consort_checklist(text)
        ELSE IF type = "custom" THEN process_custom_checklist(text)
        ELSE process_generic_checklist(text)

(***************************************************************************)
(* Classification of bounded texts: a text is a concatenation of at most   *)
(* MaxFrags fragments.                                                     *)
(***************************************************************************)
MaxFrags == 4

ClassifyFrags ==
    { <<"P", "R", "I", "S", "M", "A">>,
      <<"S", "y", "s", "t", "e", "m", "a", "t", "i", "c", " ", "R", "e", "v", "i", "e", "w">>,
      <<"m", "e", "t", "a", "-", "a", "n", "a", "l", "y", "s", "i", "s">>,
      <<"S", "t", "a", "r", "d">>,
      <<"d", "i", "a", "g", "n", "o", "s", "t", "i", "c", " ", "A", "c", "c", "u", "r", "a", "c", "y">>,
      <<"c", "o", "n", "s", "o", "r", "t">>,
      <<"R", "A", "N", "D", "O", "M", "I", "Z", "E", "D">>,
      <<":">>,
      <<"#">>,
      <<"#", "#", "#", "#", "#">> }

ClassifyTexts ==
    {Concat(fs) : fs \in UNION {[1..n -> ClassifyFrags] : n \in 0..MaxFrags}}

NoSections == <<>>

\* preprocess_checklist has not run
GuidanceIdle == general_guidance = <<>> /\ sec_i = 0

\* generate_section_answers has not run
AnswersIdle ==
    /\ section = <<>>
    /\ manuscript_text = <<>>
    /\ section_text = <<>>
    /\ item_pos = 0
    /\ section_answers = <<>>

\* main is not running: the operation is called on its own
RunIdle ==
    /\ manuscript_file = <<>>
    /\ checklist_file = <<>>
    /\ all_section_answers = <<>>
    /\ renders = <<>>
    /\ exit_code = "none"

InitClassify ==
    /\ pc = "classify"
    /\ content \in ClassifyTexts
    /\ checklist_type = "none"
    /\ path = "none"
    /\ sections = NoSections
    /\ GuidanceIdle
    /\ calls = <<>>
    /\ AnswersIdle
    /\ RunIdle

DetectChecklistType ==
    /\ pc = "classify"
    /\ checklist_type' = detect_checklist_type(content)
    /\ pc' = "classified"
    /\ UNCHANGED <<content, path, sections, guidanceVars, calls, answerVars>>
    /\ UNCHANGED runVars

NextClassify == DetectChecklistType

SpecClassify == InitClassify /\ [][NextClassify]_vars

(***************************************************************************)
(* Parsing of bounded texts: a text is at most MaxLines lines of           *)
(* ParseLines joined by newlines, or one of the ScenarioTexts.             *)
(***************************************************************************)
MaxLines == 3

\* ' \t'
LINE_blank ==
    <<" ", "\t">>
\* 'Methods'
LINE_Methods ==
    <<"M", "e", "t", "h", "o", "d", "s">>
\* 'METHODS'
LINE_METHODS ==
    <<"M", "E", "T", "H", "O", "D", "S">>
\* 'see notes:'
LINE_see_notes ==
    <<"s", "e", "e", " ", "n", "o", "t", "e", "s", ":">>
\* '#1 Study design'
LINE_Study_design ==
    <<"#", "1", " ", "S", "t", "u", "d", "y", " ", "d", "e", "s", "i", "g", "n">>
\* 'study design'
LINE_plain ==
    <<"s", "t", "u", "d", "y", " ", "d", "e", "s", "i", "g", "n">>
\* 'A: x :: y'
LINE_header_A ==
    <<"A", ":", " ", "x", " ", ":", ":", " ", "y">>
\* ': x :: y'
LINE_header_empty ==
    <<":", " ", "x", " ", ":", ":", " ", "y">>
\* 'q :: r'
LINE_instructed ==
    <<"q", " ", ":", ":", " ", "r">>
\* 'Items reported for all tests p: describes :: howto'
LINE_long ==
    <<"I", "t", "e", "m", "s", " ", "r", "e", "p", "o", "r", "t", "e", "d", " ", "f", "o", "r", " ", "a",
      "l", "l", " ", "t", "e", "s", "t", "s", " ", "p", ":", " ", "d", "e", "s", "c", "r", "i", "b", "e",
      "s", " ", ":", ":", " ", "h", "o", "w", "t", "o">>
\* '#2 Setting'
LINE_Setting ==
    <<"#", "2", " ", "S", "e", "t", "t", "i", "n", "g">>
\* 'Results'
LINE_Results ==
    <<"R", "e", "s", "u", "l", "t", "s">>
\* '#3 Outcomes'
LINE_Outcomes ==
    <<"#", "3", " ", "O", "u", "t", "c", "o", "m", "e", "s">>
\* 'PRISMA systematic review'
LINE_prisma ==
    <<"P", "R", "I", "S", "M", "A", " ", "s", "y", "s", "t", "e", "m", "a", "t", "i", "c", " ", "r", "e",
      "v", "i", "e", "w">>
\* 'STARD diagnostic accuracy'
LINE_stard ==
    <<"S", "T", "A", "R", "D", " ", "d", "i", "a", "g", "n", "o", "s", "t", "i", "c", " ", "a", "c", "c",
      "u", "r", "a", "c", "y">>
\* 'CONSORT randomized'
LINE_consort ==
    <<"C", "O", "N", "S", "O", "R", "T", " ", "r", "a", "n", "d", "o", "m", "i", "z", "e", "d">>

ParseLines ==
    { LINE_blank, LINE_Results, LINE_METHODS, LINE_see_notes, LINE_Study_design,
      LINE_plain, LINE_header_A, LINE_header_empty, LINE_instructed, LINE_long }

\* "\n".join(lines)
RECURSIVE JoinLines(_)
JoinLines(lines) ==
    IF lines = <<>> THEN <<>>
    ELSE IF Len(lines) = 1 THEN lines[1]
    ELSE lines[1] \o STR_newline \o JoinLines(Tail(lines))

ScenarioTexts ==
    { JoinLines(<<LINE_Methods, LINE_Study_design, LINE_Setting, LINE_Results, LINE_Outcomes>>),
      JoinLines(<<LINE_prisma, LINE_Methods, LINE_Study_design>>),
      JoinLines(<<LINE_stard, LINE_METHODS, LINE_plain>>),
      JoinLines(<<LINE_consort, LINE_METHODS, LINE_plain>>) }

ParseTexts ==
    {JoinLines(ls) : ls \in UNION {[1..n -> ParseLines] : n \in 0..MaxLines}} \cup ScenarioTexts

InitParse ==
    /\ pc = "parse"
    /\ content \in ParseTexts
    /\ checklist_type = "none"
    /\ path = "none"
    /\ sections = NoSections
    /\ GuidanceIdle
    /\ calls = <<>>
    /\ AnswersIdle
    /\ RunIdle

ProcessPrismaChecklist ==
    /\ pc = "parse"
    /\ sections' = process_prisma_checklist(content)
    /\ path' = "PRISMA"
    /\ pc' = "parsed"
    /\ UNCHANGED <<content, checklist_type, guidanceVars, calls, answerVars>>
    /\ UNCHANGED runVars

ProcessStardChecklist ==
    /\ pc = "parse"
    /\ sections' = process_stard_checklist(content)
    /\ path' = "STARD"
    /\ pc' = "parsed"
    /\ UNCHANGED <<content, checklist_type, guidanceVars, calls, answerVars>>
    /\ UNCHANGED runVars

ProcessConsortChecklist ==
    /\ pc = "parse"
    /\ sections' = process_consort_checklist(content)
    /\ path' = "CONSORT"
    /\ pc' = "parsed"
    /\ UNCHANGED <<content, checklist_type, guidanceVars, calls, answerVars>>
    /\ UNCHANGED runVars

ProcessCustomChecklist ==
    /\ pc = "parse"
    /\ sections' = process_custom_checklist(content)
    /\ path' = "custom"
    /\ pc' = "parsed"
    /\ UNCHANGED <<content, checklist_type, guidanceVars, calls, answerVars>>
    /\ UNCHANGED runVars

ProcessGenericChecklist ==
    /\ pc = "parse"
    /\ sections' = process_generic_checklist(content)
    /\ path' = "generic"
    /\ pc' = "parsed"
    /\ UNCHANGED <<content, checklist_type, guidanceVars, calls, answerVars>>
    /\ UNCHANGED runVars

ProcessChecklistContent ==
    /\ pc = "parse"
    /\ checklist_type' = detect_checklist_type(content)
    /\ sections' = process_checklist_content(content)
    /\ path' = "detected"
    /\ pc' = "parsed"
    /\ UNCHANGED <<content, guidanceVars, calls, answerVars>>
    /\ UNCHANGED runVars

NextParse ==
    \/ ProcessPrismaChecklist
    \/ ProcessStardChecklist
    \/ ProcessConsortChecklist
    \/ ProcessCustomChecklist
    \/ ProcessGenericChecklist
    \/ ProcessChecklistContent

SpecParse == InitParse /\ [][NextParse]_vars

(***************************************************************************)
(* The oracle: requests.post, raise_for_status, response.json() and        *)
(* response_data.get('response', ''). A call either raises an exception    *)
(* or yields the response text ('' when the key is missing).               *)
(***************************************************************************)
\* An exception is the set of classes it is an instance of, and its str().
TEXT_refused ==
    <<"r", "e", "f", "u", "s", "e", "d">>
TEXT_500 ==
    <<"5", "0", "0">>
TEXT_bad_json ==
    <<"b", "a", "d", " ", "j", "s", "o", "n">>
TEXT_no_get ==
    <<"n", "o", " ", "g", "e", "t">>

NoError == [classes |-> {}, text |-> <<>>]

\* requests.exceptions.ConnectionError raised by requests.post
ConnectionError ==
    [classes |-> {"ConnectionError", "RequestException", "Exception"}, text |-> TEXT_refused]

\* requests.exceptions.HTTPError raised by raise_for_status
HTTPError ==
    [classes |-> {"HTTPError", "RequestException", "Exception"}, text |-> TEXT_500]

\* response.json() on a body that is not JSON: json.JSONDecodeError, and, with
\* requests 2.27 or later, requests.exceptions.JSONDecodeError, which is also
\* a RequestException
JSONDecodeErrors ==
    { [classes |-> {"JSONDecodeError", "Exception"}, text |-> TEXT_bad_json],
      [classes |-> {"JSONDecodeError", "RequestException", "Exception"}, text |-> TEXT_bad_json] }

\* any other exception, e.g. AttributeError when the JSON body is a list
UnexpectedError ==
    [classes |-> {"AttributeError", "Exception"}, text |-> TEXT_no_get]

OracleErrors == {ConnectionError, HTTPError, UnexpectedError} \cup JSONDecodeErrors

OracleSuccess(r) == [ok |-> TRUE, response |-> r, error |-> NoError]

OracleFailure(e) == [ok |-> FALSE, response |-> <<>>, error |-> e]

\* one requests.post: where it is made, for which section and item (1-based,
\* 0 when it is for none), and how it ended
Call(site, sec, item, outcome) ==
    [site |-> site, section |-> sec, item |-> item, outcome |-> outcome]

(***************************************************************************)
(* preprocess_checklist, one step per oracle call                          *)
(***************************************************************************)
FALLBACK_GENERAL_GUIDANCE ==
    <<"F", "a", "i", "l", "e", "d", " ", "t", "o", " ", "o", "b", "t", "a", "i", "n", " ", "p", "r", "e",
      "p", "r", "o", "c", "e", "s", "s", "i", "n", "g", " ", "g", "u", "i", "d", "a", "n", "c", "e", ".",
      " ", "P", "r", "o", "c", "e", "e", "d", "i", "n", "g", " ", "w", "i", "t", "h", " ", "d", "e", "f",
      "a", "u", "l", "t", " ", "a", "p", "p", "r", "o", "a", "c", "h", ".">>

\* response texts of the guidance calls
\* ' \n'
RESP_blank ==
    <<" ", "\n">>
\* ' Check the Methods.\n'
RESP_guidance ==
    <<" ", "C", "h", "e", "c", "k", " ", "t", "h", "e", " ", "M", "e", "t", "h", "o", "d", "s", ".", "\n">>
\* 'Read it all'
RESP_overview ==
    <<"R", "e", "a", "d", " ", "i", "t", " ", "a", "l", "l">>

GuidanceResponses == {<<>>, RESP_blank, RESP_guidance, RESP_overview}

\* the general-guidance call succeeds (lines 264-270); the section loop
\* starts, or the function returns when there is no section
GeneralGuidanceOk ==
    /\ pc = "general"
    /\ \E r \in GuidanceResponses :
           /\ calls' = Append(calls, Call("general_guidance", 0, 0, OracleSuccess(r)))
           /\ general_guidance' = strip(r)
    /\ sec_i' = 1
    /\ pc' = IF Len(sections) = 0 THEN "returned" ELSE "sections"
    /\ UNCHANGED <<parseVars, sections, answerVars>>
    /\ UNCHANGED runVars

\* the general-guidance call with the section loop entered after the failure
GeneralGuidanceFailContinue ==
    /\ pc = "general"
    /\ \E e \in OracleErrors :
           calls' = Append(calls, Call("general_guidance", 0, 0, OracleFailure(e)))
    /\ general_guidance' = FALLBACK_GENERAL_GUIDANCE
    /\ sec_i' = 1
    /\ pc' = IF Len(sections) = 0 THEN "returned" ELSE "sections"
    /\ UNCHANGED <<parseVars, sections, answerVars>>
    /\ UNCHANGED runVars

\* the general-guidance call raises: the outer except returns the sections
\* as they are and the fallback string (lines 301-303)
GeneralGuidanceFail ==
    /\ pc = "general"
    /\ \E e \in OracleErrors :
           calls' = Append(calls, Call("general_guidance", 0, 0, OracleFailure(e)))
    /\ general_guidance' = FALLBACK_GENERAL_GUIDANCE
    /\ pc' = "returned"
    /\ UNCHANGED <<parseVars, sections, sec_i, answerVars>>
    /\ UNCHANGED runVars

\* the call for section sec_i succeeds and its text is written to the first
\* section
SectionGuidanceOkFirst ==
    /\ pc = "sections"
    /\ sec_i <= Len(sections)
    /\ \E r \in GuidanceResponses :
           /\ calls' = Append(calls, Call("section_guidance", sec_i, 0, OracleSuccess(r)))
           /\ sections' = [sections EXCEPT ![1].guidance = strip(r)]
    /\ sec_i' = sec_i + 1
    /\ pc' = IF sec_i = Len(sections) THEN "returned" ELSE "sections"
    /\ UNCHANGED <<parseVars, general_guidance, answerVars>>
    /\ UNCHANGED runVars

\* the call for section sec_i succeeds: its guidance is overwritten (line 293)
SectionGuidanceOk ==
    /\ pc = "sections"
    /\ sec_i <= Len(sections)
    /\ \E r \in GuidanceResponses :
           /\ calls' = Append(calls, Call("section_guidance", sec_i, 0, OracleSuccess(r)))
           /\ sections' = [sections EXCEPT ![sec_i].guidance = strip(r)]
    /\ sec_i' = sec_i + 1
    /\ pc' = IF sec_i = Len(sections) THEN "returned" ELSE "sections"
    /\ UNCHANGED <<parseVars, general_guidance, answerVars>>
    /\ UNCHANGED runVars

\* the call for section sec_i raises and the exception leaves the loop
SectionGuidanceFailAbort ==
    /\ pc = "sections"
    /\ sec_i <= Len(sections)
    /\ \E e \in OracleErrors :
           calls' = Append(calls, Call("section_guidance", sec_i, 0, OracleFailure(e)))
    /\ pc' = "returned"
    /\ UNCHANGED <<parseVars, general_guidance, sections, sec_i, answerVars>>
    /\ UNCHANGED runVars

\* the call for section sec_i raises: the inner except keeps the default
\* guidance and the loop goes on (lines 294-296)
SectionGuidanceFail ==
    /\ pc = "sections"
    /\ sec_i <= Len(sections)
    /\ \E e \in OracleErrors :
           calls' = Append(calls, Call("section_guidance", sec_i, 0, OracleFailure(e)))
    /\ sec_i' = sec_i + 1
    /\ pc' = IF sec_i = Len(sections) THEN "returned" ELSE "sections"
    /\ UNCHANGED <<parseVars, general_guidance, sections, answerVars>>
    /\ UNCHANGED runVars

(***************************************************************************)
(* Guidance resolution of bounded documents: at most MaxSections blocks of *)
(* a header line and its item lines, or one of the ScenarioTexts.          *)
(***************************************************************************)
MaxSections == 3

GuidanceBlocks ==
    { JoinLines(<<LINE_METHODS, LINE_plain>>),
      JoinLines(<<LINE_see_notes, LINE_plain, LINE_plain>>) }

GuidanceTexts ==
    {JoinLines(bs) : bs \in UNION {[1..n -> GuidanceBlocks] : n \in 0..MaxSections}}
        \cup ScenarioTexts
        \cup {JoinLines(<<LINE_header_A, LINE_instructed, LINE_header_A>>)}

InitGuidance ==
    /\ pc = "general"
    /\ content \in GuidanceTexts
    /\ checklist_type = detect_checklist_type(content)
    /\ path = "detected"
    /\ sections = process_checklist_content(content)
    /\ GuidanceIdle
    /\ calls = <<>>
    /\ AnswersIdle
    /\ RunIdle

NextGuidance ==
    \/ GeneralGuidanceOk
    \/ GeneralGuidanceFail
    \/ SectionGuidanceOk
    \/ SectionGuidanceFail

SpecGuidance == InitGuidance /\ [][NextGuidance]_vars

(***************************************************************************)
(* Long texts (the manuscript, the section text) are kept as runs of equal *)
(* characters: <<[ch |-> "m", n |-> 5000], [ch |-> "n", n |-> 1]>> is      *)
(* 5000 times "m" followed by "n". A text in this form has no empty run    *)
(* and no two adjacent runs of the same character, so equal strings have   *)
(* equal runs.                                                             *)
(***************************************************************************)
Run(c, n) == [ch |-> c, n |-> n]

\* len(text)
RECURSIVE rlen(_)
rlen(t) == IF t = <<>> THEN 0 ELSE t[1].n + rlen(Tail(t))

\* text + c * n
rappend(t, run) ==
    IF run.n = 0 THEN t
    ELSE IF t # <<>> /\ t[Len(t)].ch = run.ch
    THEN [t EXCEPT ![Len(t)].n = @ + run.n]
    ELSE Append(t, run)

\* a + b
RECURSIVE rconcat(_, _)
rconcat(a, b) == IF b = <<>> THEN a ELSE rconcat(rappend(a, b[1]), Tail(b))

\* the runs of a character sequence: a run starts where the character changes
to_runs(s) ==
    LET starts   == {k \in 1..Len(s) : k = 1 \/ s[k] # s[k - 1]}
        nth(j)   == CHOOSE k \in starts : Cardinality({h \in starts : h <= k}) = j
        stop(k)  == IF \E h \in starts : h > k
                    THEN (CHOOSE h \in starts : h > k /\ \A g \in starts : g > k => h <= g) - 1
                    ELSE Len(s)
    IN  [j \in 1..Cardinality(starts) |-> Run(s[nth(j)], stop(nth(j)) - nth(j) + 1)]

Min(a, b) == IF a <= b THEN a ELSE b

Max(a, b) == IF a >= b THEN a ELSE b

\* text[a:b] for 0 <= a <= b; off is the position where t starts
RECURSIVE rslice_from(_, _, _, _)
rslice_from(t, off, a, b) ==
    IF t = <<>> THEN <<>>
    ELSE LET overlap == Max(0, Min(b, off + t[1].n) - Max(a, off))
         IN  rconcat(rappend(<<>>, Run(t[1].ch, overlap)),
                     rslice_from(Tail(t), off + t[1].n, a, b))

rslice(t, a, b) == rslice_from(t, 0, a, b)

(***************************************************************************)
(* extract_section_text                                                    *)
(***************************************************************************)
\* manuscript_text[:5000], len(manuscript_text) > 5000
ChunkSize == 5000

\* manuscript_text[5000:10000]
RetryChunkEnd == 10000

\* len(section_text) < 100
MinSectionTextLen == 100

\* manuscript_text[:1500]
FallbackChars == 1500

STR_blank_line == <<"\n", "\n">>

\* the test with both comparisons inclusive
needs_retry_inclusive(text, manuscript) ==
    rlen(text) <= MinSectionTextLen /\ rlen(manuscript) >= ChunkSize

\* the test that decides on a second call (line 373)
needs_retry(text, manuscript) ==
    rlen(text) < MinSectionTextLen /\ rlen(manuscript) > ChunkSize

\* the except branch returning the whole manuscript
extract_fallback_whole(manuscript) == manuscript

\* the except branch (lines 386-388)
extract_fallback(manuscript) == rslice(manuscript, 0, FallbackChars)

(***************************************************************************)
(* generate_item_answer                                                    *)
(***************************************************************************)
STR_answer_colon ==
    <<"a", "n", "s", "w", "e", "r", ":">>
NOT_FOUND_ANSWER ==
    <<"I", "n", "f", "o", "r", "m", "a", "t", "i", "o", "n", " ", "n", "o", "t", " ", "f", "o", "u", "n",
      "d", " ", "i", "n", " ", "t", "h", "e", " ", "p", "r", "o", "v", "i", "d", "e", "d", " ", "t", "e",
      "x", "t", " ", "s", "n", "i", "p", "p", "e", "t", ".">>
MSG_connection_failed ==
    <<"E", "r", "r", "o", "r", ":", " ", "O", "l", "l", "a", "m", "a", " ", "c", "o", "n", "n", "e", "c",
      "t", "i", "o", "n", " ", "f", "a", "i", "l", "e", "d", " ", "f", "o", "r", " ", "i", "t", "e", "m",
      " ", "'">>
MSG_request_failed ==
    <<"E", "r", "r", "o", "r", ":", " ", "O", "l", "l", "a", "m", "a", " ", "r", "e", "q", "u", "e", "s",
      "t", " ", "f", "a", "i", "l", "e", "d", " ", "f", "o", "r", " ", "i", "t", "e", "m", " ", "'">>
MSG_decode_failed ==
    <<"E", "r", "r", "o", "r", ":", " ", "O", "l", "l", "a", "m", "a", " ", "J", "S", "O", "N", " ", "d",
      "e", "c", "o", "d", "e", " ", "f", "a", "i", "l", "e", "d", " ", "f", "o", "r", " ", "i", "t", "e",
      "m", " ", "'">>
MSG_generating ==
    <<"E", "r", "r", "o", "r", " ", "g", "e", "n", "e", "r", "a", "t", "i", "n", "g", " ", "a", "n", "s",
      "w", "e", "r", ":", " ">>
STR_quote ==
    <<"'">>
STR_quote_colon ==
    <<"'", ":", " ">>

\* answer.split(':', 1)[-1]
after_first_colon(answer) ==
    LET parts == split1(answer, STR_colon) IN parts[Len(parts)]

\* the cleanup without the replacement of an empty answer
cleanup_no_substitute(response) ==
    LET answer == strip(response)
    IN  IF answer = <<>> \/ startswith(lower(answer), STR_answer_colon)
        THEN strip(after_first_colon(answer))
        ELSE answer

\* the cleanup with a case-sensitive prefix test
cleanup_case_sensitive(response) ==
    LET answer  == strip(response)
        cleaned == IF answer = <<>> \/ startswith(answer, STR_answer_colon)
                   THEN strip(after_first_colon(answer))
                   ELSE answer
    IN  IF cleaned = <<>> THEN NOT_FOUND_ANSWER ELSE cleaned

\* lines 427-437: the answer made of a response text
cleanup(response) ==
    LET answer  == strip(response)
        cleaned == IF answer = <<>> \/ startswith(lower(answer), STR_answer_colon)
                   THEN strip(after_first_colon(answer))
                   ELSE answer
    IN  IF cleaned = <<>> THEN NOT_FOUND_ANSWER ELSE cleaned

\* lines 439-454: the first except clause whose class the exception has
error_answer(item_text, e) ==
    IF "ConnectionError" \in e.classes
    THEN MSG_connection_failed \o item_text \o STR_quote
    ELSE IF "RequestException" \in e.classes
    THEN MSG_request_failed \o item_text \o STR_quote_colon \o e.text
    ELSE IF "JSONDecodeError" \in e.classes
    THEN MSG_decode_failed \o item_text \o STR_quote
    ELSE MSG_generating \o e.text

\* the answer returned for an item, given how the oracle call ended
generate_item_answer(item_text, outcome) ==
    IF outcome.ok THEN cleanup(outcome.response) ELSE error_answer(item_text, outcome.error)

(***************************************************************************)
(* generate_section_answers, one step per oracle call: the call or two of  *)
(* extract_section_text, then one generate_item_answer per item            *)
(***************************************************************************)
\* item_text of an item: item["text"] of a dict, the item itself otherwise
item_text_of(item) == IF "text" \in DOMAIN item THEN item.text ELSE item.str

\* where generate_section_answers goes once the section text is there
after_extract == IF Len(section.items) = 0 THEN "answered" ELSE "items"

\* response texts of the extraction calls
\* ' We enrolled 40 patients.\n'
RESP_excerpt ==
    <<" ", "W", "e", " ", "e", "n", "r", "o", "l", "l", "e", "d", " ", "4", "0", " ", "p", "a", "t", "i",
      "e", "n", "t", "s", ".", "\n">>

RESP_100 == [k \in 1..MinSectionTextLen |-> "x"]

ExtractResponses == {<<>>, RESP_excerpt, RESP_100}

\* response texts of the item calls
\* 'Answer: Yes, in section 3'
RESP_answer ==
    <<"A", "n", "s", "w", "e", "r", ":", " ", "Y", "e", "s", ",", " ", "i", "n", " ", "s", "e", "c", "t",
      "i", "o", "n", " ", "3">>
\* ' Not reported.\n'
RESP_not_reported ==
    <<" ", "N", "o", "t", " ", "r", "e", "p", "o", "r", "t", "e", "d", ".", "\n">>

AnswerResponses == {<<>>, RESP_answer, RESP_not_reported}

\* the first call of extract_section_text succeeds (lines 365-373): the text
\* is returned unless it is short and the manuscript long
ExtractSectionTextOk ==
    /\ pc = "extract"
    /\ \E r \in ExtractResponses :
           /\ calls' = Append(calls, Call("extract_section_text", 0, 0, OracleSuccess(r)))
           /\ section_text' = to_runs(strip(r))
    /\ pc' = IF needs_retry(section_text', manuscript_text) THEN "retry" ELSE after_extract
    /\ item_pos' = 1
    /\ UNCHANGED <<parseVars, sections, guidanceVars, section, manuscript_text, section_answers>>
    /\ UNCHANGED runVars

\* the first call raises: the start of the manuscript is the section text
ExtractSectionTextFail ==
    /\ pc = "extract"
    /\ \E e \in OracleErrors :
           calls' = Append(calls, Call("extract_section_text", 0, 0, OracleFailure(e)))
    /\ section_text' = extract_fallback(manuscript_text)
    /\ pc' = after_extract
    /\ item_pos' = 1
    /\ UNCHANGED <<parseVars, sections, guidanceVars, section, manuscript_text, section_answers>>
    /\ UNCHANGED runVars

\* the second call succeeds: its text is appended after a blank line
\* (lines 374-384)
ExtractRetryOk ==
    /\ pc = "retry"
    /\ \E r \in ExtractResponses :
           /\ calls' = Append(calls, Call("extract_section_text_retry", 0, 0, OracleSuccess(r)))
           /\ section_text' =
                  rconcat(rconcat(section_text, to_runs(STR_blank_line)), to_runs(strip(r)))
    /\ pc' = after_extract
    /\ UNCHANGED <<parseVars, sections, guidanceVars, section, manuscript_text, item_pos,
                   section_answers>>
    /\ UNCHANGED runVars

\* the second call raises inside the same try: the except branch returns the
\* start of the manuscript (lines 386-388)
ExtractRetryFail ==
    /\ pc = "retry"
    /\ \E e \in OracleErrors :
           calls' = Append(calls, Call("extract_section_text_retry", 0, 0, OracleFailure(e)))
    /\ section_text' = extract_fallback(manuscript_text)
    /\ pc' = after_extract
    /\ UNCHANGED <<parseVars, sections, guidanceVars, section, manuscript_text, item_pos,
                   section_answers>>
    /\ UNCHANGED runVars

\* the record appended for the item at item_pos (lines 316-337)
answer_record(outcome) ==
    LET item_text == item_text_of(section.items[item_pos])
    IN  [item |-> item_text, answer |-> generate_item_answer(item_text, outcome)]

\* the item loop ends after the last item
after_item == IF item_pos = Len(section.items) THEN "answered" ELSE "items"

\* the oracle call of the item at item_pos succeeds
ItemAnswerOk ==
    /\ pc = "items"
    /\ item_pos <= Len(section.items)
    /\ \E r \in AnswerResponses :
           /\ calls' = Append(calls, Call("generate_item_answer", 0, item_pos, OracleSuccess(r)))
           /\ section_answers' = Append(section_answers, answer_record(OracleSuccess(r)))
    /\ item_pos' = item_pos + 1
    /\ pc' = after_item
    /\ UNCHANGED <<parseVars, sections, guidanceVars, section, manuscript_text, section_text>>
    /\ UNCHANGED runVars

\* the oracle call of the item at item_pos raises and the exception leaves
\* generate_section_answers with the records made so far
ItemAnswerFailAbort ==
    /\ pc = "items"
    /\ item_pos <= Len(section.items)
    /\ \E e \in OracleErrors :
           calls' = Append(calls, Call("generate_item_answer", 0, item_pos, OracleFailure(e)))
    /\ pc' = "answered"
    /\ UNCHANGED <<parseVars, sections, guidanceVars, section, manuscript_text, section_text,
                   item_pos, section_answers>>
    /\ UNCHANGED runVars

\* the oracle call of the item at item_pos raises: generate_item_answer
\* returns the error string and the loop goes on
ItemAnswerFail ==
    /\ pc = "items"
    /\ item_pos <= Len(section.items)
    /\ \E e \in OracleErrors :
           /\ calls' = Append(calls, Call("generate_item_answer", 0, item_pos, OracleFailure(e)))
           /\ section_answers' = Append(section_answers, answer_record(OracleFailure(e)))
    /\ item_pos' = item_pos + 1
    /\ pc' = after_item
    /\ UNCHANGED <<parseVars, sections, guidanceVars, section, manuscript_text, section_text>>
    /\ UNCHANGED runVars

(***************************************************************************)
(* Answering of bounded sections: the first section of a PRISMA, generic   *)
(* or custom checklist with at most MaxItems items, and a manuscript that  *)
(* is short, exactly ChunkSize long, or one character longer.              *)
(***************************************************************************)
MaxItems == 2

\* the k-th of the lines, cyclically
Cycle(lines, k) == lines[((k - 1) % Len(lines)) + 1]

PrismaText(n) ==
    JoinLines(<<LINE_prisma, LINE_Methods>>
              \o [k \in 1..n |-> Cycle(<<LINE_Study_design, LINE_Setting, LINE_Outcomes>>, k)])

GenericText(n) ==
    JoinLines(<<LINE_METHODS>>
              \o [k \in 1..n |-> Cycle(<<LINE_plain, LINE_Study_design, LINE_Setting>>, k)])

CustomText(n) ==
    JoinLines(<<LINE_header_A>>
              \o [k \in 1..(n - 1) |-> Cycle(<<LINE_instructed, LINE_plain, LINE_long>>, k)])

AnswerTexts ==
    {PrismaText(n) : n \in 0..MaxItems}
        \cup {GenericText(n) : n \in 1..MaxItems}
        \cup {CustomText(n) : n \in 1..MaxItems}

AnswerSections == {process_checklist_content(t)[1] : t \in AnswerTexts}

Manuscripts ==
    { <<Run("m", 40)>>,
      <<Run("m", ChunkSize)>>,
      <<Run("m", ChunkSize), Run("n", 1)>>,
      <<Run("a", FallbackChars - 1), Run("b", 2)>> }

InitAnswers ==
    /\ pc = "extract"
    /\ content = <<>>
    /\ checklist_type = "none"
    /\ path = "none"
    /\ sections = NoSections
    /\ general_guidance = FALLBACK_GENERAL_GUIDANCE
    /\ sec_i = 0
    /\ calls = <<>>
    /\ section \in AnswerSections
    /\ manuscript_text \in Manuscripts
    /\ section_text = <<>>
    /\ item_pos = 0
    /\ section_answers = <<>>
    /\ RunIdle

NextAnswers ==
    \/ ExtractSectionTextOk
    \/ ExtractSectionTextFail
    \/ ExtractRetryOk
    \/ ExtractRetryFail
    \/ ItemAnswerOk
    \/ ItemAnswerFail

SpecAnswers == InitAnswers /\ [][NextAnswers]_vars

(***************************************************************************)
(* generate_item_answer on its own: one item of a bounded section and one  *)
(* oracle call, whose response text is made of at most MaxParts parts.     *)
(***************************************************************************)
MaxParts == 3

ResponseParts ==
    { <<"A", "n", "s", "w", "e", "r", ":">>,
      <<"A", "N", "S", "W", "E", "R">>,
      <<":">>,
      <<" ">>,
      <<"Y", "e", "s", ",", " ", "i", "n", " ", "s", "e", "c", "t", "i", "o", "n", " ", "3">>,
      <<"s", "e", "e", " ", "2", ":", "1", "\n">> }

ItemResponses ==
    {Concat(fs) : fs \in UNION {[1..n -> ResponseParts] : n \in 0..MaxParts}}

InitItemAnswer ==
    /\ pc = "ask"
    /\ content = <<>>
    /\ checklist_type = "none"
    /\ path = "none"
    /\ sections = NoSections
    /\ general_guidance = FALLBACK_GENERAL_GUIDANCE
    /\ sec_i = 0
    /\ calls = <<>>
    /\ section \in AnswerSections
    /\ manuscript_text = <<Run("m", 40)>>
    /\ section_text = extract_fallback(manuscript_text)
    /\ item_pos \in 1..Len(section.items)
    /\ section_answers = <<>>
    /\ RunIdle

\* the oracle call succeeds (lines 424-437)
GenerateItemAnswerOk ==
    /\ pc = "ask"
    /\ \E r \in ItemResponses :
           /\ calls' = Append(calls, Call("generate_item_answer", 0, item_pos, OracleSuccess(r)))
           /\ section_answers' = <<answer_record(OracleSuccess(r))>>
    /\ pc' = "asked"
    /\ UNCHANGED <<parseVars, sections, guidanceVars, section, manuscript_text, section_text,
                   item_pos>>
    /\ UNCHANGED runVars

\* the oracle call raises (lines 439-454)
GenerateItemAnswerFail ==
    /\ pc = "ask"
    /\ \E e \in OracleErrors :
           /\ calls' = Append(calls, Call("generate_item_answer", 0, item_pos, OracleFailure(e)))
           /\ section_answers' = <<answer_record(OracleFailure(e))>>
    /\ pc' = "asked"
    /\ UNCHANGED <<parseVars, sections, guidanceVars, section, manuscript_text, section_text,
                   item_pos>>
    /\ UNCHANGED runVars

NextItemAnswer ==
    \/ GenerateItemAnswerOk
    \/ GenerateItemAnswerFail

SpecItemAnswer == InitItemAnswer /\ [][NextItemAnswer]_vars

(***************************************************************************)
(* main: the two files are read, the guidance is resolved, every section   *)
(* is answered and the report is rendered; one step per file reading,      *)
(* oracle call and create_pdf call                                         *)
(***************************************************************************)
filesVars == <<manuscript_file, checklist_file>>

\* a file: whether os.path.exists holds, and what extract_manuscript_text
\* returns for it (None for an unsupported extension or a read error)
File(exists, text) == [exists |-> exists, text |-> text]

\* not text.strip(), for a text given as runs
rblank(t) == \A k \in 1..Len(t) : t[k].ch \in Whitespace

\* read_checklist_file (lines 30-50): None, or the sections of the content
read_checklist_file(file) ==
    IF ~file.exists THEN None
    ELSE IF file.text = None \/ strip(file.text[1]) = <<>> THEN None
    ELSE Some(process_checklist_content(file.text[1]))

\* sys.exit(1)
MainExit ==
    /\ pc' = "exited"
    /\ exit_code' = 1
    /\ UNCHANGED <<parseVars, sections, manuscript_text>>

\* lines 545-563: both paths are validated, the manuscript is extracted and
\* the checklist is read and parsed
MainReadInputs ==
    /\ pc = "main"
    /\ IF ~manuscript_file.exists THEN MainExit
       ELSE IF ~checklist_file.exists THEN MainExit
       ELSE IF manuscript_file.text = None \/ rblank(manuscript_file.text[1]) THEN MainExit
       ELSE IF read_checklist_file(checklist_file) = None THEN MainExit
       ELSE /\ manuscript_text' = manuscript_file.text[1]
            /\ content' = checklist_file.text[1]
            /\ checklist_type' = detect_checklist_type(content')
            /\ path' = "detected"
            /\ sections' = read_checklist_file(checklist_file)[1]
            /\ pc' = "general"
            /\ UNCHANGED exit_code
    /\ UNCHANGED <<guidanceVars, calls, section, section_text, item_pos, section_answers,
                   filesVars, all_section_answers, renders>>

\* how the oracle calls of a run end: with a response text or an exception
MainSuccesses == {OracleSuccess(RESP_answer)}

MainFailures == {OracleFailure(ConnectionError), OracleFailure(UnexpectedError)}

\* the loop of lines 572-579 starts over the sections secs
MainEnterLoop(secs) ==
    IF Len(secs) = 0
    THEN pc' = "render" /\ section' = section
    ELSE pc' = "extract" /\ section' = secs[1]

\* preprocess_checklist, general call (lines 264-270)
MainGeneralGuidanceOk ==
    /\ pc = "general"
    /\ \E o \in MainSuccesses :
           /\ calls' = Append(calls, Call("general_guidance", 0, 0, o))
           /\ general_guidance' = strip(o.response)
    /\ sec_i' = 1
    /\ IF Len(sections) = 0 THEN MainEnterLoop(sections) ELSE pc' = "sections" /\ section' = section
    /\ UNCHANGED <<parseVars, sections, manuscript_text, section_text, item_pos,
                   section_answers, runVars>>

\* preprocess_checklist, general call raises (lines 301-303)
MainGeneralGuidanceFail ==
    /\ pc = "general"
    /\ \E o \in MainFailures : calls' = Append(calls, Call("general_guidance", 0, 0, o))
    /\ general_guidance' = FALLBACK_GENERAL_GUIDANCE
    /\ MainEnterLoop(sections)
    /\ UNCHANGED <<parseVars, sections, sec_i, manuscript_text, section_text, item_pos,
                   section_answers, runVars>>

\* preprocess_checklist, call of section sec_i (lines 284-293)
MainSectionGuidanceOk ==
    /\ pc = "sections"
    /\ \E o \in MainSuccesses :
           /\ calls' = Append(calls, Call("section_guidance", sec_i, 0, o))
           /\ sections' = [sections EXCEPT ![sec_i].guidance = strip(o.response)]
    /\ sec_i' = sec_i + 1
    /\ IF sec_i = Len(sections) THEN MainEnterLoop(sections')
       ELSE pc' = "sections" /\ section' = section
    /\ UNCHANGED <<parseVars, general_guidance, manuscript_text, section_text, item_pos,
                   section_answers, runVars>>

\* preprocess_checklist, call of section sec_i raises (lines 294-296)
MainSectionGuidanceFail ==
    /\ pc = "sections"
    /\ \E o \in MainFailures : calls' = Append(calls, Call("section_guidance", sec_i, 0, o))
    /\ sec_i' = sec_i + 1
    /\ IF sec_i = Len(sections) THEN MainEnterLoop(sections)
       ELSE pc' = "sections" /\ section' = section
    /\ UNCHANGED <<parseVars, sections, general_guidance, manuscript_text, section_text,
                   item_pos, section_answers, runVars>>

\* generate_section_answers returns answers (line 339): main appends them
\* and goes to the next section, or to create_pdf after the last one
MainSectionDone(answers) ==
    /\ all_section_answers' = Append(all_section_answers, answers)
    /\ section_answers' = <<>>
    /\ item_pos' = 0
    /\ IF Len(all_section_answers) + 1 = Len(sections)
       THEN pc' = "render" /\ section' = section
       ELSE pc' = "extract" /\ section' = sections[Len(all_section_answers) + 2]

\* extract_section_text has returned: the item loop starts
MainAfterExtract ==
    IF Len(section.items) = 0 THEN MainSectionDone(<<>>)
    ELSE /\ pc' = "items"
         /\ item_pos' = 1
         /\ UNCHANGED <<section, section_answers, all_section_answers>>

\* extract_section_text, first call (lines 365-373)
MainExtractSectionTextOk ==
    /\ pc = "extract"
    /\ \E o \in MainSuccesses :
           /\ calls' = Append(calls, Call("extract_section_text", Len(all_section_answers) + 1, 0, o))
           /\ section_text' = to_runs(strip(o.response))
    /\ IF needs_retry(section_text', manuscript_text)
       THEN pc' = "retry" /\ UNCHANGED <<section, item_pos, section_answers, all_section_answers>>
       ELSE MainAfterExtract
    /\ UNCHANGED <<parseVars, sections, guidanceVars, manuscript_text, filesVars, renders,
                   exit_code>>

\* extract_section_text, first call raises (lines 386-388)
MainExtractSectionTextFail ==
    /\ pc = "extract"
    /\ \E o \in MainFailures :
           calls' = Append(calls, Call("extract_section_text", Len(all_section_answers) + 1, 0, o))
    /\ section_text' = extract_fallback(manuscript_text)
    /\ MainAfterExtract
    /\ UNCHANGED <<parseVars, sections, guidanceVars, manuscript_text, filesVars, renders,
                   exit_code>>

\* extract_section_text, second call (lines 374-384)
MainExtractRetryOk ==
    /\ pc = "retry"
    /\ \E o \in MainSuccesses :
           /\ calls' = Append(calls, Call("extract_section_text_retry",
                                          Len(all_section_answers) + 1, 0, o))
           /\ section_text' =
                  rconcat(rconcat(section_text, to_runs(STR_blank_line)),
                          to_runs(strip(o.response)))
    /\ MainAfterExtract
    /\ UNCHANGED <<parseVars, sections, guidanceVars, manuscript_text, filesVars, renders,
                   exit_code>>

\* extract_section_text, second call raises and a further call is made
MainExtractRetryFailAgain ==
    /\ pc = "retry"
    /\ \E o \in MainFailures :
           calls' = Append(calls, Call("extract_section_text_retry",
                                       Len(all_section_answers) + 1, 0, o))
    /\ pc' = "retry"
    /\ UNCHANGED <<parseVars, sections, guidanceVars, answerVars, runVars>>

\* extract_section_text, second call raises (lines 386-388)
MainExtractRetryFail ==
    /\ pc = "retry"
    /\ \E o \in MainFailures :
           calls' = Append(calls, Call("extract_section_text_retry",
                                       Len(all_section_answers) + 1, 0, o))
    /\ section_text' = extract_fallback(manuscript_text)
    /\ MainAfterExtract
    /\ UNCHANGED <<parseVars, sections, guidanceVars, manuscript_text, filesVars, renders,
                   exit_code>>

\* the item at item_pos got its record (lines 324-337)
MainItemAnswered(o) ==
    /\ calls' = Append(calls, Call("generate_item_answer", Len(all_section_answers) + 1,
                                   item_pos, o))
    /\ IF item_pos = Len(section.items)
       THEN MainSectionDone(Append(section_answers, answer_record(o)))
       ELSE /\ section_answers' = Append(section_answers, answer_record(o))
            /\ item_pos' = item_pos + 1
            /\ pc' = "items"
            /\ UNCHANGED <<section, all_section_answers>>
    /\ UNCHANGED <<parseVars, sections, guidanceVars, manuscript_text, section_text, filesVars,
                   renders, exit_code>>

\* generate_item_answer, the call succeeds (lines 423-437)
MainItemAnswerOk ==
    /\ pc = "items"
    /\ \E o \in MainSuccesses : MainItemAnswered(o)

\* generate_item_answer, the call raises and the exception is not caught:
\* the process ends with status 1
MainItemAnswerFailAbort ==
    /\ pc = "items"
    /\ \E o \in MainFailures :
           calls' = Append(calls, Call("generate_item_answer", Len(all_section_answers) + 1,
                                       item_pos, o))
    /\ pc' = "exited"
    /\ exit_code' = 1
    /\ UNCHANGED <<parseVars, sections, guidanceVars, answerVars, filesVars,
                   all_section_answers, renders>>

\* generate_item_answer, the call raises (lines 439-454)
MainItemAnswerFail ==
    /\ pc = "items"
    /\ \E o \in MainFailures : MainItemAnswered(o)

\* one create_pdf call: what it is given and whether it returned True
Render(ok) ==
    [sections |-> sections, all_answers |-> all_section_answers,
     general_guidance |-> general_guidance, ok |-> ok]

\* create_pdf returns True (lines 582-585)
CreatePdfOk ==
    /\ pc = "render"
    /\ renders' = Append(renders, Render(TRUE))
    /\ exit_code' = 0
    /\ pc' = "exited"
    /\ UNCHANGED <<parseVars, sections, guidanceVars, calls, answerVars, filesVars,
                   all_section_answers>>

\* create_pdf returns False (lines 531-533, 586-588)
CreatePdfFail ==
    /\ pc = "render"
    /\ renders' = Append(renders, Render(FALSE))
    /\ exit_code' = 1
    /\ pc' = "exited"
    /\ UNCHANGED <<parseVars, sections, guidanceVars, calls, answerVars, filesVars,
                   all_section_answers>>

(***************************************************************************)
(* Runs of main: a manuscript file and a checklist file that are missing,  *)
(* unreadable, empty, blank or have a text                                 *)
(***************************************************************************)
ManuscriptFiles ==
    { File(FALSE, None), File(TRUE, None), File(TRUE, Some(<<>>)),
      File(TRUE, Some(<<Run(" ", 2), Run("\n", 1)>>)),
      File(TRUE, Some(<<Run("m", 40)>>)),
      File(TRUE, Some(<<Run("m", ChunkSize), Run("n", 1)>>)) }

ChecklistFiles ==
    { File(FALSE, None), File(TRUE, None), File(TRUE, Some(<<>>)),
      File(TRUE, Some(LINE_blank)),
      File(TRUE, Some(LINE_plain)),
      File(TRUE, Some(JoinLines(<<LINE_METHODS, LINE_plain>>))),
      File(TRUE, Some(JoinLines(<<LINE_prisma, LINE_Methods, LINE_Study_design>>))),
      File(TRUE, Some(JoinLines(<<LINE_header_A, LINE_instructed>>))),
      File(TRUE, Some(JoinLines(<<LINE_Methods, LINE_Study_design, LINE_Setting, LINE_Results,
                                  LINE_Outcomes>>))) }

InitFill ==
    /\ pc = "main"
    /\ content = <<>>
    /\ checklist_type = "none"
    /\ path = "none"
    /\ sections = NoSections
    /\ GuidanceIdle
    /\ calls = <<>>
    /\ AnswersIdle
    /\ manuscript_file \in ManuscriptFiles
    /\ checklist_file \in ChecklistFiles
    /\ all_section_answers = <<>>
    /\ renders = <<>>
    /\ exit_code = "running"

NextFill ==
    \/ MainReadInputs
    \/ MainGeneralGuidanceOk
    \/ MainGeneralGuidanceFail
    \/ MainSectionGuidanceOk
    \/ MainSectionGuidanceFail
    \/ MainExtractSectionTextOk
    \/ MainExtractSectionTextFail
    \/ MainExtractRetryOk
    \/ MainExtractRetryFail
    \/ MainItemAnswerOk
    \/ MainItemAnswerFail
    \/ CreatePdfOk
    \/ CreatePdfFail

SpecFill == InitFill /\ [][NextFill]_vars

(***************************************************************************)
(* process_prisma_checklist on texts of at most MaxPrismaLines lines       *)
(***************************************************************************)
MaxPrismaLines == 3

\* 'title \tand  abstract'
LINE_title_spaced ==
    <<"t", "i", "t", "l", "e", " ", "\t", "a", "n", "d", " ", " ", "a", "b", "s", "t", "r", "a", "c", "t">>
\* ' 3 # RESULTS of search '
LINE_results_numbered ==
    <<" ", "3", " ", "#", " ", "R", "E", "S", "U", "L", "T", "S", " ", "o", "f", " ", "s", "e", "a", "r", "c", "h", " ">>
\* 'notes # Setting'
LINE_notes_setting ==
    <<"n", "o", "t", "e", "s", " ", "#", " ", "S", "e", "t", "t", "i", "n", "g">>

PrismaLines ==
    {LINE_blank, LINE_Methods, LINE_title_spaced, LINE_results_numbered, LINE_Study_design,
     LINE_plain, LINE_notes_setting}

PrismaTexts ==
    {JoinLines(ls) : ls \in UNION {[1..n -> PrismaLines] : n \in 0..MaxPrismaLines}}

InitPrisma ==
    /\ pc = "parse"
    /\ content \in PrismaTexts
    /\ checklist_type = "none"
    /\ path = "none"
    /\ sections = NoSections
    /\ GuidanceIdle
    /\ calls = <<>>
    /\ AnswersIdle
    /\ RunIdle

NextPrisma == ProcessPrismaChecklist

SpecPrisma == InitPrisma /\ [][NextPrisma]_vars

(***************************************************************************)
(* C1: detect_checklist_type returns exactly one of the five variants, and *)
(* it is the first rule that matches in the order PRISMA, STARD, CONSORT,  *)
(* CUSTOM, else GENERIC (keywords case-insensitive); 5 '#' without '::'    *)
(* and without a keyword rule is GENERIC, 6 '#' is CUSTOM, and a text      *)
(* matching the PRISMA rule and a later rule is PRISMA.                    *)
(***************************************************************************)
\* kw (lower case) occurs in text at some position, ignoring case
OccursIgnoringCase(text, kw) ==
    \E i \in 1..Len(text) :
        /\ i + Len(kw) - 1 <= Len(text)
        /\ \A j \in 1..Len(kw) : ToLowerChar(text[i + j - 1]) = kw[j]

NumHash(text) == Len(SelectSeq(text, LAMBDA c : c = "#"))

HasDelimiter(text) == \E i \in 1..(Len(text) - 1) : text[i] = ":" /\ text[i + 1] = ":"

RulePRISMA(text) ==
    /\ OccursIgnoringCase(text, STR_prisma)
    /\ \/ OccursIgnoringCase(text, STR_systematic_review)
       \/ OccursIgnoringCase(text, STR_meta_analysis)

RuleSTARD(text) ==
    OccursIgnoringCase(text, STR_stard) /\ OccursIgnoringCase(text, STR_diagnostic_accuracy)

RuleCONSORT(text) ==
    OccursIgnoringCase(text, STR_consort) /\ OccursIgnoringCase(text, STR_randomized)

RuleCUSTOM(text) == HasDelimiter(text) \/ NumHash(text) > 5

NoKeywordRule(text) == ~RulePRISMA(text) /\ ~RuleSTARD(text) /\ ~RuleCONSORT(text)

\* C1: the variant returned is that of the first matching rule
C1_FirstMatchingRule ==
    pc = "classified" =>
        LET prisma  == RulePRISMA(content)
            stard   == RuleSTARD(content)
            consort == RuleCONSORT(content)
            custom  == RuleCUSTOM(content)
            keyword == prisma \/ stard \/ consort
        IN  /\ checklist_type \in {"PRISMA", "STARD", "CONSORT", "custom", "generic"}
            /\ (checklist_type = "PRISMA") <=> prisma
            /\ (checklist_type = "STARD") <=> (~prisma /\ stard)
            /\ (checklist_type = "CONSORT") <=> (~prisma /\ ~stard /\ consort)
            /\ (checklist_type = "custom") <=> (~keyword /\ custom)
            /\ (checklist_type = "generic") <=> (~keyword /\ ~custom)
            /\ (NumHash(content) = 5 /\ ~HasDelimiter(content) /\ ~keyword)
                   => checklist_type = "generic"
            /\ (NumHash(content) = 6 /\ ~keyword) => checklist_type = "custom"

\* five '#', no '::', no keyword rule: classified GENERIC
C1_Witness ==
    /\ pc = "classified"
    /\ NumHash(content) = 5
    /\ ~HasDelimiter(content)
    /\ NoKeywordRule(content)
    /\ checklist_type = "generic"

\* the PRISMA rule and a later rule both match: classified PRISMA
C1_WitnessPriority ==
    /\ pc = "classified"
    /\ RulePRISMA(content)
    /\ RuleCUSTOM(content)
    /\ checklist_type = "PRISMA"

(***************************************************************************)
(* C2: for an input that is empty or whose every line is blank after       *)
(* trimming, each of the five parsing paths returns an empty section       *)
(* sequence.                                                               *)
(***************************************************************************)
\* every line is blank after trimming: the text holds whitespace only
AllBlank(text) == \A k \in 1..Len(text) : text[k] \in Whitespace

\* C2: an empty or all-whitespace text parses to no section on every path
C2_BlankInputNoSections ==
    (pc = "parsed" /\ AllBlank(content)) => sections = <<>>

\* a whitespace-only text of two lines went down the CUSTOM path
C2_Witness ==
    /\ pc = "parsed"
    /\ path = "custom"
    /\ AllBlank(content)
    /\ \E k \in 1..Len(content) : content[k] = "\n"
    /\ \E k \in 1..Len(content) : content[k] = " "
    /\ sections = <<>>

(***************************************************************************)
(* C3 (as amended): the PRISMA path applied to the five lines 'Methods',   *)
(* '#1 Study design', '#2 Setting', 'Results', '#3 Outcomes' yields        *)
(* exactly two sections in order: 'Methods' with items ['1 Study design',  *)
(* '2 Setting'] and 'Results' with items ['3 Outcomes']: the item text is  *)
(* everything after the first '#', item number included.                   *)
(***************************************************************************)
PrismaScenario ==
    JoinLines(<<LINE_Methods, LINE_Study_design, LINE_Setting, LINE_Results, LINE_Outcomes>>)

TEXT_1_Study_design ==
    <<"1", " ", "S", "t", "u", "d", "y", " ", "d", "e", "s", "i", "g", "n">>
TEXT_2_Setting ==
    <<"2", " ", "S", "e", "t", "t", "i", "n", "g">>
TEXT_3_Outcomes ==
    <<"3", " ", "O", "u", "t", "c", "o", "m", "e", "s">>
TEXT_Study_design ==
    <<"S", "t", "u", "d", "y", " ", "d", "e", "s", "i", "g", "n">>
TEXT_Setting ==
    <<"S", "e", "t", "t", "i", "n", "g">>
TEXT_Outcomes ==
    <<"O", "u", "t", "c", "o", "m", "e", "s">>

\* names and item texts of a section list, without guidance
Outline(secs) ==
    [n \in 1..Len(secs) |->
        <<secs[n].section,
          [j \in 1..Len(secs[n].items) |->
              IF "str" \in DOMAIN secs[n].items[j]
              THEN secs[n].items[j].str ELSE secs[n].items[j].text]>>]

\* C3 (as amended): the scenario's items keep their item numbers
C3_PrismaScenarioNumbered ==
    (pc = "parsed" /\ path = "PRISMA" /\ content = PrismaScenario) =>
        Outline(sections) = << <<LINE_Methods, <<TEXT_1_Study_design, TEXT_2_Setting>> >>,
                               <<LINE_Results, <<TEXT_3_Outcomes>> >> >>

\* the scenario text went down the PRISMA path
C3_Witness ==
    /\ pc = "parsed"
    /\ path = "PRISMA"
    /\ content = PrismaScenario
    /\ Len(sections) = 2

\* C3 as stated: the items are 'Study design', 'Setting' and 'Outcomes'
C3_Original ==
    (pc = "parsed" /\ path = "PRISMA" /\ content = PrismaScenario) =>
        Outline(sections) = << <<LINE_Methods, <<TEXT_Study_design, TEXT_Setting>> >>,
                               <<LINE_Results, <<TEXT_Outcomes>> >> >>

(***************************************************************************)
(* C4: GENERIC parsing produces one section per maximal run of consecutive *)
(* non-header lines among the non-blank (trimmed) lines: the section is    *)
(* named by the header line right before the run ('General' when the run   *)
(* opens the text), its items are exactly the lines of the run in source   *)
(* order, and the sections are in source order; 'METHODS' followed by two  *)
(* non-header lines is one section 'METHODS' with 2 items, and every       *)
(* non-header non-blank line is an item exactly once.                      *)
(***************************************************************************)
\* the trimmed lines of the text that are not blank, in source order
NonBlankLines(text) ==
    LET raw == split(text, STR_newline)
    IN  SelectSeq([k \in 1..Len(raw) |-> strip(raw[k])], LAMBDA l : l # <<>>)

\* the first positions of the maximal runs of non-header lines
RunStarts(L) ==
    {a \in 1..Len(L) :
        /\ ~generic_is_section_header(L[a])
        /\ (a = 1 \/ generic_is_section_header(L[a - 1]))}

\* the last position of the maximal run that starts at a
RunEnd(L, a) ==
    CHOOSE b \in a..Len(L) :
        /\ \A j \in a..b : ~generic_is_section_header(L[j])
        /\ (b = Len(L) \/ generic_is_section_header(L[b + 1]))

\* the start of the n-th run
NthStart(L, n) ==
    CHOOSE a \in RunStarts(L) : Cardinality({s \in RunStarts(L) : s <= a}) = n

ItemTexts(sec) == [j \in 1..Len(sec.items) |-> sec.items[j].text]

\* C4: one section per header-to-header run, its lines as plain items
C4_GenericRuns ==
    (pc = "parsed" /\ path = "generic") =>
        LET L == NonBlankLines(content)
        IN  /\ Len(sections) = Cardinality(RunStarts(L))
            /\ \A n \in 1..Len(sections) :
                   LET a == NthStart(L, n)
                   IN  /\ sections[n].section = (IF a = 1 THEN STR_General ELSE L[a - 1])
                       /\ ItemTexts(sections[n]) = SubSeq(L, a, RunEnd(L, a))

\* 'METHODS' and two non-header lines: one section 'METHODS' with 2 items
C4_Witness ==
    /\ pc = "parsed"
    /\ path = "generic"
    /\ content = JoinLines(<<LINE_METHODS, LINE_plain, LINE_Study_design>>)
    /\ Len(sections) = 1
    /\ sections[1].section = LINE_METHODS
    /\ Len(sections[1].items) = 2

(***************************************************************************)
(* C5: for a CUSTOM input with exactly two section-header lines (a '::'    *)
(* line whose item text contains ':' with fewer than 30 characters before  *)
(* it), no item line before the first header and any number of non-header  *)
(* item lines after each header, process_custom_checklist returns exactly  *)
(* 2 sections, named by the two header prefixes in source order, each      *)
(* holding exactly the items of its own block in source order.             *)
(***************************************************************************)
\* the trimmed lines that are neither blank nor '#' comments
EffectiveLines(text) ==
    SelectSeq(NonBlankLines(text), LAMBDA l : l[1] # "#")

DelimiterAt(l) ==
    CHOOSE i \in 1..(Len(l) - 1) :
        /\ l[i] = ":" /\ l[i + 1] = ":"
        /\ \A h \in 1..(i - 1) : ~(l[h] = ":" /\ l[h + 1] = ":")

\* the text before the first '::', trimmed
ItemTextOf(l) == strip(SubSeq(l, 1, DelimiterAt(l) - 1))

\* the text after the first '::', trimmed
InstructionOf(l) == strip(SubSeq(l, DelimiterAt(l) + 2, Len(l)))

HasColon(s) == \E i \in 1..Len(s) : s[i] = ":"

ColonAt(s) == CHOOSE i \in 1..Len(s) : s[i] = ":" /\ \A h \in 1..(i - 1) : s[h] # ":"

IsCustomHeader(l) ==
    /\ HasDelimiter(l)
    /\ HasColon(ItemTextOf(l))
    /\ ColonAt(ItemTextOf(l)) - 1 < 30

HeaderPrefix(l) == strip(SubSeq(ItemTextOf(l), 1, ColonAt(ItemTextOf(l)) - 1))

CustomItemOf(l) ==
    IF HasDelimiter(l)
    THEN DictItem(ItemTextOf(l), InstructionOf(l))
    ELSE DictItem(l, DEFAULT_INSTRUCTION)

CustomHeaders(E) == {k \in 1..Len(E) : IsCustomHeader(E[k])}

\* exactly two header lines, the first effective line being one of them
TwoHeaderBlocks(E) == Cardinality(CustomHeaders(E)) = 2 /\ 1 \in CustomHeaders(E)

TwoBlocksParsed(E, secs) ==
    LET h2 == CHOOSE k \in CustomHeaders(E) : k # 1
    IN  /\ Len(secs) = 2
        /\ secs[1].section = HeaderPrefix(E[1])
        /\ secs[2].section = HeaderPrefix(E[h2])
        /\ secs[1].items = [k \in 1..(h2 - 1) |-> CustomItemOf(E[k])]
        /\ secs[2].items = [k \in 1..(Len(E) - h2 + 1) |-> CustomItemOf(E[h2 + k - 1])]

\* C5: two header blocks parse to two sections with their items
C5_TwoHeaderBlocks ==
    (pc = "parsed" /\ path = "custom" /\ TwoHeaderBlocks(EffectiveLines(content))) =>
        TwoBlocksParsed(EffectiveLines(content), sections)

\* C5 where the first header has a non-empty prefix: the statement holds
C5_FirstHeaderNamed ==
    (/\ pc = "parsed" /\ path = "custom"
     /\ TwoHeaderBlocks(EffectiveLines(content))
     /\ HeaderPrefix(EffectiveLines(content)[1]) # <<>>) =>
        TwoBlocksParsed(EffectiveLines(content), sections)

(***************************************************************************)
(* C6: after guidance resolution no section has an empty guidance string,  *)
(* whatever the oracle outcomes (failure, or success with any response     *)
(* text, empty and whitespace-only included), and a section whose oracle   *)
(* call failed has the parse-time default guidance.                        *)
(***************************************************************************)
\* the oracle call made for section n failed
SectionCallFailed(n) ==
    \E c \in 1..Len(calls) :
        calls[c].site = "section_guidance" /\ calls[c].section = n /\ ~calls[c].outcome.ok

\* C6: no empty guidance after preprocess_checklist, default kept on failure
C6_GuidanceNeverEmpty ==
    pc = "returned" =>
        \A n \in 1..Len(sections) :
            /\ sections[n].guidance # <<>>
            /\ SectionCallFailed(n) => sections[n].guidance = DEFAULT_GUIDANCE

\* the part of C6 about failed calls alone, which the code satisfies
C6_FailedCallKeepsDefault ==
    pc = "returned" =>
        \A n \in 1..Len(sections) :
            SectionCallFailed(n) => sections[n].guidance = DEFAULT_GUIDANCE

(***************************************************************************)
(* C7: in per-section guidance resolution the oracle failure of one        *)
(* section does not stop the loop: every later section still gets its own  *)
(* oracle call, in document order, and has its guidance overwritten when   *)
(* that call succeeds.                                                     *)
(***************************************************************************)
\* the general call succeeded, so the section loop was entered
LoopEntered == Len(calls) >= 1 /\ calls[1].outcome.ok

\* C7: one call per section in document order, successes overwrite
C7_SectionFailureIsLocal ==
    (pc = "returned" /\ LoopEntered) =>
        /\ Len(calls) = 1 + Len(sections)
        /\ \A n \in 1..Len(sections) :
               /\ calls[n + 1].site = "section_guidance"
               /\ calls[n + 1].section = n
               /\ calls[n + 1].outcome.ok =>
                      sections[n].guidance = strip(calls[n + 1].outcome.response)

\* the call of section 1 failed, the call of section 2 succeeded and wrote
C7_Witness ==
    /\ pc = "returned"
    /\ LoopEntered
    /\ Len(sections) >= 2
    /\ ~calls[2].outcome.ok
    /\ calls[3].outcome.ok
    /\ sections[1].guidance = DEFAULT_GUIDANCE
    /\ sections[2].guidance = strip(RESP_guidance)

(***************************************************************************)
(* C8 (as amended): when the general-guidance oracle call fails,           *)
(* general_guidance is the fixed fallback string 'Failed to obtain         *)
(* preprocessing guidance. Proceeding with default approach.' and          *)
(* preprocess_checklist returns at once: no per-section oracle call is     *)
(* made and every section keeps its parse-time default guidance.           *)
(***************************************************************************)
GeneralCallFailed == Len(calls) >= 1 /\ ~calls[1].outcome.ok

ItemCalls == SelectSeq(calls, LAMBDA c : c.site = "generate_item_answer")

\* the extraction failed: its first call or its second one raised
ExtractionFailed ==
    \E n \in 1..Len(calls) :
        /\ calls[n].site \in {"extract_section_text", "extract_section_text_retry"}
        /\ ~calls[n].outcome.ok

\* C9: every item call so far has left its record, the records are those of
\* the first items in item order, and at the return there is one per item
C9_OneRecordPerItem ==
    /\ Len(section_answers) = Len(ItemCalls)
    /\ Len(section_answers) <= Len(section.items)
    /\ \A k \in 1..Len(section_answers) :
           /\ ItemCalls[k].item = k
           /\ section_answers[k].item = item_text_of(section.items[k])
           /\ section_answers[k].answer =
                  generate_item_answer(item_text_of(section.items[k]), ItemCalls[k].outcome)
    /\ pc = "answered" => Len(section_answers) = Len(section.items)

\* the extraction failed, the call of item 1 failed and the call of item 2
\* succeeded: both items have their record
C9_Witness ==
    /\ pc = "answered"
    /\ Len(section.items) >= 2
    /\ ExtractionFailed
    /\ ~ItemCalls[1].outcome.ok
    /\ ItemCalls[2].outcome.ok
    /\ Len(section_answers) = Len(section.items)
    /\ section_answers[2].answer = cleanup(RESP_answer)

(***************************************************************************)
(* C10 (as amended): a successful oracle response that, after trimming,    *)
(* starts case-insensitively with 'answer:' is turned into the text after  *)
(* its first ':' trimmed (so 'Answer: Yes, in section 3' becomes 'Yes, in  *)
(* section 3'); a response that is non-empty after trimming and does not   *)
(* start with 'answer:' is returned unchanged apart from trimming, even    *)
(* when it contains ':'. Whenever the text so obtained is empty (also for  *)
(* an empty or all-whitespace response), the answer is the fixed string    *)
(* 'Information not found in the provided text snippet.' instead.          *)
(***************************************************************************)
\* text without its leading and trailing whitespace
Trimmed(text) ==
    LET keep == {i \in 1..Len(text) : text[i] \notin Whitespace}
    IN  IF keep = {} THEN <<>>
        ELSE SubSeq(text,
                    CHOOSE i \in keep : \A j \in keep : i <= j,
                    CHOOSE i \in keep : \A j \in keep : i >= j)

\* text starts with 'answer:' in any letter case
HasAnswerPrefix(text) ==
    /\ Len(text) >= Len(STR_answer_colon)
    /\ \A i \in 1..Len(STR_answer_colon) : ToLowerChar(text[i]) = STR_answer_colon[i]

\* the text after the first ':' of a text that has one
AfterFirstColon(text) ==
    LET first == CHOOSE i \in 1..Len(text) :
                     text[i] = ":" /\ \A j \in 1..(i - 1) : text[j] # ":"
    IN  SubSeq(text, first + 1, Len(text))

\* a single successful call of generate_item_answer has returned
AnsweredOk == pc = "asked" /\ calls[1].outcome.ok

\* the response of that call, and the answer made of it
RawResponse == calls[1].outcome.response

Answer == section_answers[1].answer

\* the replacement of an empty text
OrNotFound(text) == IF text = <<>> THEN NOT_FOUND_ANSWER ELSE text

\* 'Answer: Yes, in section 3' and 'Yes, in section 3'
TEXT_answer_yes ==
    <<"A", "n", "s", "w", "e", "r", ":", " ", "Y", "e", "s", ",", " ", "i", "n", " ", "s", "e", "c", "t", "i", "o", "n", " ", "3">>
TEXT_yes ==
    <<"Y", "e", "s", ",", " ", "i", "n", " ", "s", "e", "c", "t", "i", "o", "n", " ", "3">>

\* C10 (as amended): prefix removed, other text only trimmed, empty replaced
C10_CleanupOrNotFound ==
    AnsweredOk =>
        LET trimmed == Trimmed(RawResponse)
        IN  /\ HasAnswerPrefix(trimmed) =>
                   Answer = OrNotFound(Trimmed(AfterFirstColon(trimmed)))
            /\ (trimmed # <<>> /\ ~HasAnswerPrefix(trimmed)) => Answer = trimmed
            /\ trimmed = <<>> => Answer = NOT_FOUND_ANSWER
            /\ RawResponse = TEXT_answer_yes => Answer = TEXT_yes

\* the response 'Answer: Yes, in section 3' was answered 'Yes, in section 3'
C10_Witness ==
    /\ AnsweredOk
    /\ RawResponse = TEXT_answer_yes
    /\ Answer = TEXT_yes

\* a response with ':' and without the prefix was only trimmed
C10_WitnessUnchanged ==
    /\ AnsweredOk
    /\ ~HasAnswerPrefix(Trimmed(RawResponse))
    /\ \E i \in 1..Len(RawResponse) : RawResponse[i] = ":"
    /\ Trimmed(RawResponse) # RawResponse
    /\ Answer = Trimmed(RawResponse)

\* nothing is left after the prefix: the fixed string is the answer
C10_WitnessNotFound ==
    /\ AnsweredOk
    /\ HasAnswerPrefix(Trimmed(RawResponse))
    /\ Trimmed(AfterFirstColon(Trimmed(RawResponse))) = <<>>
    /\ Answer = NOT_FOUND_ANSWER

\* C10 as stated: the text after the first ':' is the answer even when it is
\* empty
C10_Original ==
    AnsweredOk =>
        LET trimmed == Trimmed(RawResponse)
        IN  /\ HasAnswerPrefix(trimmed) => Answer = Trimmed(AfterFirstColon(trimmed))
            /\ (trimmed # <<>> /\ ~HasAnswerPrefix(trimmed)) => Answer = trimmed

(***************************************************************************)
(* C11: the four oracle failure kinds of item answering (connection, HTTP  *)
(* request, response decoding, unexpected) each give an answer that no     *)
(* other kind gives; a response-decoding failure gives the 'JSON decode    *)
(* failed' message and not the 'request failed' one.                       *)
(***************************************************************************)
\* a single failed call of generate_item_answer has returned
AnsweredFailed == pc = "asked" /\ ~calls[1].outcome.ok

\* the exception of that call
RaisedError == calls[1].outcome.error

\* the failure kind of an exception, by where the call broke
KindOf(e) ==
    IF "ConnectionError" \in e.classes THEN "Unreachable"
    ELSE IF "HTTPError" \in e.classes THEN "RequestFailed"
    ELSE IF "JSONDecodeError" \in e.classes THEN "DecodeFailed"
    ELSE "Unexpected"

FailureKinds == {"Unreachable", "RequestFailed", "DecodeFailed", "Unexpected"}

\* the start of the message of a failure kind
KindMessage(kind) ==
    CASE kind = "Unreachable"   -> MSG_connection_failed
      [] kind = "RequestFailed" -> MSG_request_failed
      [] kind = "DecodeFailed"  -> MSG_decode_failed
      [] kind = "Unexpected"    -> MSG_generating

\* text begins with prefix
BeginsWith(text, prefix) ==
    /\ Len(text) >= Len(prefix)
    /\ \A i \in 1..Len(prefix) : text[i] = prefix[i]

\* C11: the answer carries the message of its failure kind and of no other
C11_KindToldFromAnswer ==
    AnsweredFailed =>
        \A kind \in FailureKinds :
            BeginsWith(Answer, KindMessage(kind)) <=> kind = KindOf(RaisedError)

\* C11 without the decoding failures: the other three kinds are told apart
C11_OtherKindsTold ==
    (AnsweredFailed /\ KindOf(RaisedError) # "DecodeFailed") =>
        \A kind \in FailureKinds :
            BeginsWith(Answer, KindMessage(kind)) <=> kind = KindOf(RaisedError)

\* a decoding failure was answered with the 'request failed' message
C11_DecodeAnsweredAsRequest ==
    /\ AnsweredFailed
    /\ KindOf(RaisedError) = "DecodeFailed"
    /\ BeginsWith(Answer, MSG_request_failed)

(***************************************************************************)
(* C12: for every oracle failure kind of item answering the answer string  *)
(* returned for the item contains that item's text.                        *)
(***************************************************************************)
\* the text of the item the call was made for
AskedItemText == item_text_of(section.items[item_pos])

\* part occurs in text
Occurs(text, part) ==
    \E i \in 0..(Len(text) - Len(part)) :
        \A j \in 1..Len(part) : text[i + j] = part[j]

\* C12: the answer of a failed call names the item
C12_FailureNamesItem == AnsweredFailed => Occurs(Answer, AskedItemText)

\* C12 for the three kinds other than Unexpected: the item is named
C12_KnownKindsNameItem ==
    (AnsweredFailed /\ RaisedError.classes \cap {"RequestException", "JSONDecodeError"} # {}) =>
        Occurs(Answer, AskedItemText)

\* an unexpected failure was answered without the item's text
C12_UnexpectedUnnamed ==
    /\ AnsweredFailed
    /\ KindOf(RaisedError) = "Unexpected"
    /\ Answer = MSG_generating \o RaisedError.text
    /\ ~Occurs(Answer, AskedItemText)

(***************************************************************************)
(* C13 (as amended): in a fill run where the manuscript and the checklist  *)
(* are both read successfully and rendering succeeds, the process ends     *)
(* successfully and the renderer is invoked exactly once with one answer   *)
(* list per section, for every combination of oracle failures in guidance  *)
(* resolution, section-text extraction and item answering; a nonzero exit  *)
(* happens only for a missing, unreadable or empty manuscript, a missing,  *)
(* unreadable or empty (all-whitespace) checklist, or a render failure.    *)
(***************************************************************************)
\* the run of main has ended
Exited == pc = "exited"

ManuscriptMissing == ~manuscript_file.exists

ManuscriptUnreadable == manuscript_file.exists /\ manuscript_file.text = None

ManuscriptEmpty ==
    /\ manuscript_file.exists
    /\ manuscript_file.text # None
    /\ \A k \in 1..Len(manuscript_file.text[1]) : manuscript_file.text[1][k].ch \in Whitespace

ChecklistMissing == ~checklist_file.exists

ChecklistUnreadable == checklist_file.exists /\ checklist_file.text = None

ChecklistEmpty ==
    /\ checklist_file.exists
    /\ checklist_file.text # None
    /\ \A k \in 1..Len(checklist_file.text[1]) : checklist_file.text[1][k] \in Whitespace

\* create_pdf was called and returned False
RenderFailed == \E k \in 1..Len(renders) : ~renders[k].ok

\* some oracle call of the run failed
SomeCallFailed == \E k \in 1..Len(calls) : ~calls[k].outcome.ok

\* one create_pdf call, given one answer list per section and one record
\* per item
RenderedOnce ==
    /\ Len(renders) = 1
    /\ renders[1].sections = sections
    /\ Len(renders[1].all_answers) = Len(sections)
    /\ \A k \in 1..Len(sections) :
           Len(renders[1].all_answers[k]) = Len(sections[k].items)

\* C13 (as amended): the exit status is nonzero exactly for an input file
\* that is missing, unreadable or empty, or a failed rendering
C13_OracleFailuresNeverFatal ==
    Exited =>
        LET manuscript_bad == ManuscriptMissing \/ ManuscriptUnreadable \/ ManuscriptEmpty
            checklist_bad  == ChecklistMissing \/ ChecklistUnreadable \/ ChecklistEmpty
        IN  /\ exit_code \in {0, 1}
            /\ exit_code = 1 <=> (manuscript_bad \/ checklist_bad \/ RenderFailed)
            /\ (manuscript_bad \/ checklist_bad) => renders = <<>> /\ calls = <<>>
            /\ ~(manuscript_bad \/ checklist_bad) => RenderedOnce

\* a run of two sections ended with status 0 although oracle calls failed in
\* guidance resolution, extraction and item answering
C13_Witness ==
    /\ Exited
    /\ exit_code = 0
    /\ Len(sections) = 2
    /\ RenderedOnce
    /\ \A site \in {"section_guidance", "extract_section_text", "generate_item_answer"} :
           \E k \in 1..Len(calls) : calls[k].site = site /\ ~calls[k].outcome.ok

\* C13 as stated: an empty checklist is not among the causes of exit 1
C13_Original ==
    Exited =>
        LET manuscript_bad == ManuscriptMissing \/ ManuscriptUnreadable \/ ManuscriptEmpty
            checklist_bad  == ChecklistMissing \/ ChecklistUnreadable
        IN  /\ exit_code = 1 => (manuscript_bad \/ checklist_bad \/ RenderFailed)
            /\ ~(manuscript_bad \/ checklist_bad \/ RenderFailed) =>
                   exit_code = 0 /\ RenderedOnce

(***************************************************************************)
(* C14: for every variant and every input, each section of the parser's    *)
(* output has at least one item: a header followed by no item line before  *)
(* the next header or the end of input produces no section.                *)
(***************************************************************************)
\* C14: no section without items in the output of any path
C14_EverySectionHasItem ==
    pc = "parsed" => \A k \in 1..Len(sections) : Len(sections[k].items) >= 1

\* C14 on the paths that buffer the items (STARD, CONSORT, CUSTOM, GENERIC)
C14_BufferedPathsHaveItems ==
    (pc = "parsed" /\ path \in {"STARD", "CONSORT", "custom", "generic"}) =>
        \A k \in 1..Len(sections) : Len(sections[k].items) >= 1

\* the PRISMA path returned a section without items for a header line that
\* is the last line of the text
C14_PrismaEmptySection ==
    /\ pc = "parsed"
    /\ path = "PRISMA"
    /\ Len(sections) >= 1
    /\ sections[Len(sections)].items = <<>>
    /\ sections[Len(sections)].section = NonBlankLines(content)[Len(NonBlankLines(content))]

(***************************************************************************)
(* C15: for every input text the STARD path and the CONSORT path return    *)
(* the same section sequence (names, items, instructions, guidance, order) *)
(* as the GENERIC path applied to the same text.                           *)
(***************************************************************************)
\* the text was parsed as STARD or CONSORT, by a direct call or by dispatch
ParsedAsStardOrConsort ==
    /\ pc = "parsed"
    /\ \/ path \in {"STARD", "CONSORT"}
       \/ path = "detected" /\ checklist_type \in {"STARD", "CONSORT"}

C15_WitnessDispatch ==
    /\ pc = "parsed"
    /\ path = "detected"
    /\ checklist_type = "STARD"
    /\ Len(sections) >= 1
    /\ sections = process_generic_checklist(content)

(***************************************************************************)
(* C16 (as amended): PRISMA parsing: the output has exactly one section    *)
(* per non-blank line that contains one of the six anchor phrases          *)
(* (case-insensitive substring match, where the words of 'Title and        *)
(* Abstract' may be separated by any non-empty runs of whitespace), in     *)
(* source order and named by the whole trimmed line; such a line is never  *)
(* an item; every non-header non-blank line before the first header        *)
(* appears nowhere in the output, and every non-header non-blank line      *)
(* after a header appears exactly once as an item of the most recent       *)
(* header's section.                                                       *)
(***************************************************************************)
ANCHOR_title == <<"t", "i", "t", "l", "e">>

ANCHOR_and == <<"a", "n", "d">>

ANCHOR_abstract == <<"a", "b", "s", "t", "r", "a", "c", "t">>

\* the anchor phrases, in lower case
AnchorPhrases ==
    { ANCHOR_title \o <<" ">> \o ANCHOR_and \o <<" ">> \o ANCHOR_abstract,
      <<"i", "n", "t", "r", "o", "d", "u", "c", "t", "i", "o", "n">>,
      <<"m", "e", "t", "h", "o", "d", "s">>,
      <<"r", "e", "s", "u", "l", "t", "s">>,
      <<"d", "i", "s", "c", "u", "s", "s", "i", "o", "n">>,
      <<"f", "u", "n", "d", "i", "n", "g">> }

\* the line contains an anchor phrase, letter case ignored
HasAnchorPhrase(l) == \E phrase \in AnchorPhrases : OccursIgnoringCase(l, phrase)

\* word stands in l from position i on, letter case ignored
WordAt(l, i, word) ==
    /\ i >= 1
    /\ i + Len(word) - 1 <= Len(l)
    /\ \A j \in 1..Len(word) : ToLowerChar(l[i + j - 1]) = word[j]

\* the positions a..b of l are a non-empty run of whitespace
GapAt(l, a, b) == a <= b /\ \A j \in a..b : l[j] \in Whitespace

\* 'title', 'and', 'abstract' stand in l in this order, with nothing but
\* whitespace, and some, between them
HasSpacedTitlePhrase(l) ==
    \E i, j, k \in 1..Len(l) :
        /\ WordAt(l, i, ANCHOR_title)
        /\ WordAt(l, j, ANCHOR_and)
        /\ WordAt(l, k, ANCHOR_abstract)
        /\ GapAt(l, i + Len(ANCHOR_title), j - 1)
        /\ GapAt(l, j + Len(ANCHOR_and), k - 1)

HasAnchor(l) == HasAnchorPhrase(l) \/ HasSpacedTitlePhrase(l)

\* the item made of a non-header line: the text after its first '#'
\* trimmed, the whole line when it has no '#'
PrismaItemOf(l) ==
    IF \E i \in 1..Len(l) : l[i] = "#"
    THEN LET first == CHOOSE i \in 1..Len(l) : l[i] = "#" /\ \A h \in 1..(i - 1) : l[h] # "#"
         IN  StrItem(Trimmed(SubSeq(l, first + 1, Len(l))))
    ELSE StrItem(l)

\* the sections the statement describes for the lines L with headers H
PrismaOutline(L, H) ==
    LET nth(n)  == CHOOSE h \in H : Cardinality({g \in H : g <= h}) = n
        stop(h) == IF \E g \in H : g > h
                   THEN (CHOOSE g \in H : g > h /\ \A f \in H : f > h => g <= f) - 1
                   ELSE Len(L)
    IN  [n \in 1..Cardinality(H) |->
            Section(L[nth(n)],
                    [j \in 1..(stop(nth(n)) - nth(n)) |-> PrismaItemOf(L[nth(n) + j])],
                    DEFAULT_GUIDANCE)]

\* C16 (as amended): one section per anchor line, its items the lines up to
\* the next anchor line
C16_PrismaOutline ==
    (pc = "parsed" /\ path = "PRISMA") =>
        LET L == NonBlankLines(content)
        IN  sections = PrismaOutline(L, {h \in 1..Len(L) : HasAnchor(L[h])})

\* a line before the first header was dropped, a header with '#' named a
\* section, and the line after it is that section's only item
C16_Witness ==
    /\ pc = "parsed"
    /\ path = "PRISMA"
    /\ NonBlankLines(content) = <<LINE_plain, Trimmed(LINE_results_numbered), LINE_Study_design>>
    /\ Len(sections) = 1
    /\ sections[1].section = Trimmed(LINE_results_numbered)
    /\ Len(sections[1].items) = 1

\* a line with the words of 'Title and Abstract' set apart by a tab and two
\* blanks is a header
C16_WitnessSpaced ==
    /\ pc = "parsed"
    /\ path = "PRISMA"
    /\ Len(sections) = 2
    /\ sections[1].section = LINE_Methods
    /\ sections[2].section = LINE_title_spaced
    /\ sections[1].items = <<>>

\* C16 as stated: a header is a line that has an anchor phrase as a substring
C16_Original ==
    (pc = "parsed" /\ path = "PRISMA") =>
        LET L == NonBlankLines(content)
        IN  sections = PrismaOutline(L, {h \in 1..Len(L) : HasAnchorPhrase(L[h])})

(***************************************************************************)
(* C17: CUSTOM parsing: whenever a '::' line is recognised as a new        *)
(* section header and the item buffer is non-empty, the buffer is flushed  *)
(* as a section named by the previous section name and reset, whatever the *)
(* previous name is (an empty name included); items of two different       *)
(* header blocks never end up in the same section.                         *)
(***************************************************************************)
\* the lines at which a block starts: the first line, and every header line
\* (the buffer is non-empty at each header after the first line)
BlockStarts(E) == {k \in 1..Len(E) : k = 1 \/ IsCustomHeader(E[k])}

\* the name under which the block that starts at line k is collected
BlockName(E, k) == IF IsCustomHeader(E[k]) THEN HeaderPrefix(E[k]) ELSE STR_General

\* one section per block, in source order
CustomOutline(E) ==
    LET B       == BlockStarts(E)
        nth(n)  == CHOOSE k \in B : Cardinality({g \in B : g <= k}) = n
        stop(k) == IF \E g \in B : g > k
                   THEN (CHOOSE g \in B : g > k /\ \A f \in B : f > k => g <= f) - 1
                   ELSE Len(E)
    IN  [n \in 1..Cardinality(B) |->
            Section(BlockName(E, nth(n)),
                    [j \in 1..(stop(nth(n)) - nth(n) + 1) |-> CustomItemOf(E[nth(n) + j - 1])],
                    DEFAULT_GUIDANCE)]

\* C17: every header closes the block before it
C17_FlushAtEveryHeader ==
    (pc = "parsed" /\ path = "custom") => sections = CustomOutline(EffectiveLines(content))

\* some header but the last opens a block under an empty name
EmptyNameBeforeHeader(E) ==
    \E k, g \in CustomHeaders(E) : k < g /\ HeaderPrefix(E[k]) = <<>>

\* C17 for texts where no block but the last has an empty name
C17_NamedBlocksFlushed ==
    (pc = "parsed" /\ path = "custom" /\ ~EmptyNameBeforeHeader(EffectiveLines(content))) =>
        sections = CustomOutline(EffectiveLines(content))

\* the items of a block with an empty name and of the next block were
\* returned in one section
C17_BlocksMerged ==
    /\ pc = "parsed"
    /\ path = "custom"
    /\ EffectiveLines(content) = <<LINE_header_empty, LINE_header_A>>
    /\ Len(sections) = 1
    /\ Len(sections[1].items) = 2

(***************************************************************************)
(* C18: section-text extraction makes a second oracle call exactly when    *)
(* the first call succeeded, its trimmed text is shorter than 100          *)
(* characters and the manuscript is longer than 5000 characters (no retry  *)
(* at exactly 100 characters of text or exactly 5000 of manuscript); when  *)
(* the retry succeeds the result is the first text, a blank line, then the *)
(* retry's trimmed text; it never makes more than two calls.               *)
(***************************************************************************)
\* the oracle calls made by extract_section_text so far
ExtractCalls ==
    SelectSeq(calls, LAMBDA c : c.site \in {"extract_section_text", "extract_section_text_retry"})

\* extract_section_text has returned
Extracted == pc \in {"items", "answered"}

\* the number of characters of a text given as runs
NumChars(t) == IF t = <<>> THEN 0 ELSE LET S[k \in 0..Len(t)] == IF k = 0 THEN 0 ELSE S[k - 1] + t[k].n
                                        IN  S[Len(t)]

\* the condition the statement gives for the second call
RetryDue ==
    /\ ExtractCalls[1].outcome.ok
    /\ Len(Trimmed(ExtractCalls[1].outcome.response)) < 100
    /\ NumChars(manuscript_text) > 5000

\* C18: a second call exactly when due, its text appended after a blank
\* line, and never a third call
C18_RetryExactlyWhenDue ==
    /\ Len(ExtractCalls) <= 2
    /\ pc = "retry" => Len(ExtractCalls) = 1 /\ RetryDue
    /\ Extracted =>
           /\ Len(ExtractCalls) = 2 <=> RetryDue
           /\ Len(ExtractCalls) = 2 =>
                  /\ ExtractCalls[1].site = "extract_section_text"
                  /\ ExtractCalls[2].site = "extract_section_text_retry"
           /\ (Len(ExtractCalls) = 2 /\ ExtractCalls[2].outcome.ok) =>
                  section_text = to_runs(Trimmed(ExtractCalls[1].outcome.response)
                                         \o <<"\n", "\n">>
                                         \o Trimmed(ExtractCalls[2].outcome.response))

\* a short first text for a manuscript of 5001 characters: the retry was
\* made and its text appended
C18_Witness ==
    /\ Extracted
    /\ NumChars(manuscript_text) = 5001
    /\ Len(ExtractCalls) = 2
    /\ ExtractCalls[1].outcome.response = RESP_excerpt
    /\ ExtractCalls[2].outcome.ok
    /\ ExtractCalls[2].outcome.response = RESP_excerpt
    /\ NumChars(section_text) = 2 * Len(Trimmed(RESP_excerpt)) + 2

\* a first text of exactly 100 characters for a manuscript of 5001: no retry
C18_WitnessText100 ==
    /\ Extracted
    /\ NumChars(manuscript_text) = 5001
    /\ Len(ExtractCalls) = 1
    /\ ExtractCalls[1].outcome.ok
    /\ Len(Trimmed(ExtractCalls[1].outcome.response)) = 100

\* an empty first text for a manuscript of exactly 5000 characters: no retry
C18_WitnessManuscript5000 ==
    /\ Extracted
    /\ NumChars(manuscript_text) = 5000
    /\ Len(ExtractCalls) = 1
    /\ ExtractCalls[1].outcome.ok
    /\ ExtractCalls[1].outcome.response = <<>>

(***************************************************************************)
(* C19: in section-text extraction, when the first oracle call succeeds    *)
(* and the retry call fails, nothing is appended and the section text is   *)
(* the first call's result: the retry's failure does not discard the text  *)
(* the first call returned.                                                *)
(***************************************************************************)
\* the first call succeeded and the retry raised
RetryFailed ==
    /\ Len(ExtractCalls) = 2
    /\ ExtractCalls[1].outcome.ok
    /\ ~ExtractCalls[2].outcome.ok

\* C19: after a failed retry the section text is the first call's text
C19_RetryFailureKeepsFirstText ==
    (Extracted /\ RetryFailed) =>
        section_text = to_runs(Trimmed(ExtractCalls[1].outcome.response))

\* after a failed retry the first call's text is gone: the section text is
\* the first 1500 characters of the manuscript
C19_FirstTextDiscarded ==
    /\ Extracted
    /\ RetryFailed
    /\ ExtractCalls[1].outcome.response = RESP_excerpt
    /\ section_text = <<Run("m", 1500)>>

(***************************************************************************)
(* C20: when the first oracle call of section-text extraction fails (any   *)
(* failure kind), extract_section_text raises nothing and returns exactly  *)
(* the first 1500 characters of the manuscript text (the whole manuscript  *)
(* when it is shorter), and the items of that section are then still       *)
(* answered with that text as section text.                                *)
(***************************************************************************)
\* the first call of extract_section_text raised
FirstExtractFailed == Len(ExtractCalls) >= 1 /\ ~ExtractCalls[1].outcome.ok

\* the character at position p of a text given as runs
CharAt(t, p) ==
    LET k == CHOOSE k \in 1..Len(t) :
                 /\ NumChars(SubSeq(t, 1, k)) >= p
                 /\ NumChars(SubSeq(t, 1, k - 1)) < p
    IN  t[k].ch

\* the positions at which a run of t starts
RunFirsts(t) == {NumChars(SubSeq(t, 1, k - 1)) + 1 : k \in 1..Len(t)}

\* short is the text of the first n characters of long, all of it when it
\* has fewer: the two agree wherever a run of either starts, hence everywhere
IsPrefixOfLength(short, long, n) ==
    /\ NumChars(short) = IF NumChars(long) < n THEN NumChars(long) ELSE n
    /\ \A p \in (RunFirsts(short) \cup RunFirsts(long)) \cap 1..NumChars(short) :
           CharAt(short, p) = CharAt(long, p)

\* C20: one call only, the start of the manuscript as section text, and
\* every item answered
C20_FirstFailureFallsBack ==
    FirstExtractFailed =>
        /\ Extracted
        /\ Len(ExtractCalls) = 1
        /\ IsPrefixOfLength(section_text, manuscript_text, 1500)
        /\ Len(section_answers) = Len(ItemCalls)
        /\ pc = "answered" => Len(section_answers) = Len(section.items)

\* the first call failed for a manuscript of 1501 characters: the section
\* text is its first 1500 characters and both items were answered
C20_Witness ==
    /\ pc = "answered"
    /\ FirstExtractFailed
    /\ manuscript_text = <<Run("a", 1499), Run("b", 2)>>
    /\ section_text = <<Run("a", 1499), Run("b", 1)>>
    /\ Len(section.items) = 2
    /\ Len(section_answers) = 2

\* the first call failed for a manuscript of 40 characters: all of it is
\* the section text
C20_WitnessShort ==
    /\ Extracted
    /\ FirstExtractFailed
    /\ NumChars(manuscript_text) = 40
    /\ section_text = manuscript_text

(***************************************************************************)
(* C21: every answer returned by generate_item_answer is a non-empty       *)
(* string: when the oracle succeeds and the response is empty,             *)
(* whitespace-only, or empty after the 'answer:' prefix is stripped (e.g.  *)
(* 'Answer:' alone), the answer is exactly 'Information not found in the   *)
(* provided text snippet.'; when the oracle fails the answer is a          *)
(* non-empty error string.                                                 *)
(***************************************************************************)
\* nothing is left of the response once trimmed and rid of its prefix
NothingLeft(response) ==
    \/ Trimmed(response) = <<>>
    \/ /\ HasAnswerPrefix(Trimmed(response))
       /\ Trimmed(AfterFirstColon(Trimmed(response))) = <<>>

STR_Error == <<"E", "r", "r", "o", "r">>

\* C21: the answer is never empty, and is the fixed string when nothing is
\* left of a successful response
C21_AnswerNeverEmpty ==
    pc = "asked" =>
        /\ Len(section_answers) = 1
        /\ Answer # <<>>
        /\ (AnsweredOk /\ NothingLeft(RawResponse)) => Answer = NOT_FOUND_ANSWER
        /\ AnsweredFailed => BeginsWith(Answer, STR_Error) /\ Len(Answer) > Len(STR_Error)

\* the response 'Answer:' alone was answered with the fixed string
C21_Witness ==
    /\ AnsweredOk
    /\ RawResponse = <<"A", "n", "s", "w", "e", "r", ":">>
    /\ Answer = NOT_FOUND_ANSWER

\* a response of blanks was answered with the fixed string
C21_WitnessBlank ==
    /\ AnsweredOk
    /\ RawResponse = <<" ", " ">>
    /\ Answer = NOT_FOUND_ANSWER

\* a failed call was answered with an error string
C21_WitnessError ==
    /\ AnsweredFailed
    /\ KindOf(RaisedError) = "Unreachable"
    /\ Answer = MSG_connection_failed \o AskedItemText \o <<"'">>

(***************************************************************************)
(* C22: guidance resolution changes nothing but the guidance field: after  *)
(* preprocess_checklist, for every combination of oracle outcomes, the     *)
(* number of sections, their order, their names and their item sequences   *)
(* (text and instruction) equal those of the parsed document, and each     *)
(* section's guidance is written at most once.                             *)
(***************************************************************************)
\* the document as the parser returned it
ParsedDocument == process_checklist_content(content)

\* the positions in calls of the guidance calls made for section k
GuidanceCallsOf(k) ==
    {n \in 1..Len(calls) : calls[n].site = "section_guidance" /\ calls[n].section = k}

\* a step leaves the number, names and items of the sections as they are,
\* and changes a guidance only by the first call made for its section
GuidanceStep ==
    /\ Len(sections') = Len(sections)
    /\ \A k \in 1..Len(sections) :
           /\ DOMAIN sections'[k] = {"section", "items", "guidance"}
           /\ sections'[k].section = sections[k].section
           /\ sections'[k].items = sections[k].items
           /\ sections'[k].guidance # sections[k].guidance =>
                  /\ GuidanceCallsOf(k) = {}
                  /\ Len(calls') = Len(calls) + 1
                  /\ calls'[Len(calls')].site = "section_guidance"
                  /\ calls'[Len(calls')].section = k
                  /\ calls'[Len(calls')].outcome.ok
                  /\ sections'[k].guidance = Trimmed(calls'[Len(calls')].outcome.response)

\* C22: the sections start as the parsed document and every step changes
\* nothing but a guidance not written before
C22_OnlyGuidanceChanges ==
    /\ sections = ParsedDocument
    /\ [][GuidanceStep]_vars

\* a document of two sections with items, both guidances written by their
\* calls
C22_Witness ==
    /\ pc = "returned"
    /\ Len(sections) = 2
    /\ \A k \in 1..2 :
           /\ Len(sections[k].items) >= 1
           /\ sections[k].items = ParsedDocument[k].items
           /\ sections[k].guidance # ParsedDocument[k].guidance
           /\ Cardinality(GuidanceCallsOf(k)) = 1
    /\ sections[1].guidance # sections[2].guidance

(***************************************************************************)
(* C23: in any fill run the steps happen in the order extract manuscript,  *)
(* extract and parse checklist, general guidance, per-section guidance for *)
(* all sections, then per section in document order one section-text       *)
(* extraction followed by that section's item answers in item order, then  *)
(* one render: no oracle call happens before both files are extracted, no  *)
(* item of section k+1 is answered before the last item of section k, and  *)
(* with S sections and I items the run makes at most 1 + S + 2*S + I       *)
(* oracle calls.                                                           *)
(***************************************************************************)
\* the place of an oracle call in the stated order: the phase, the section
\* and the step within the section
StepOf(c) ==
    CASE c.site = "general_guidance"           -> <<1, 0, 0>>
      [] c.site = "section_guidance"           -> <<2, c.section, 0>>
      [] c.site = "extract_section_text"       -> <<3, c.section, 0>>
      [] c.site = "extract_section_text_retry" -> <<3, c.section, 1>>
      [] c.site = "generate_item_answer"       -> <<3, c.section, c.item + 1>>

\* step a comes before step b
Before(a, b) ==
    \/ a[1] < b[1]
    \/ a[1] = b[1] /\ a[2] < b[2]
    \/ a[1] = b[1] /\ a[2] = b[2] /\ a[3] < b[3]

\* the calls with a given step
CallsAt(step) == {n \in 1..Len(calls) : StepOf(calls[n]) = step}

\* I: the number of items of all sections
RECURSIVE NumItems(_)
NumItems(secs) == IF secs = <<>> THEN 0 ELSE Len(secs[1].items) + NumItems(Tail(secs))

\* both files have been extracted and the checklist parsed
InputsRead ==
    /\ pc # "main"
    /\ manuscript_file.text # None
    /\ manuscript_text = manuscript_file.text[1]
    /\ checklist_file.text # None
    /\ content = checklist_file.text[1]

\* C23: calls only after the inputs, in the stated order, items after their
\* section's extraction and after every item before them, one render at
\* the end, and at most 1 + S + 2*S + I calls
C23_StepsInOrder ==
    /\ calls # <<>> => InputsRead
    /\ \A n \in 1..(Len(calls) - 1) : Before(StepOf(calls[n]), StepOf(calls[n + 1]))
    /\ calls # <<>> => calls[1].site = "general_guidance"
    /\ \A n \in 1..Len(calls) :
           LET c == calls[n]
           IN  /\ c.site \in {"section_guidance", "extract_section_text",
                              "extract_section_text_retry", "generate_item_answer"} =>
                      c.section \in 1..Len(sections)
               /\ c.site = "generate_item_answer" =>
                      /\ c.item \in 1..Len(sections[c.section].items)
                      /\ CallsAt(<<3, c.section, 0>>) # {}
                      /\ \A j \in 1..(c.item - 1) : CallsAt(<<3, c.section, j + 1>>) # {}
                      /\ \A k \in 1..(c.section - 1) :
                             \A j \in 1..Len(sections[k].items) :
                                 CallsAt(<<3, k, j + 1>>) # {}
    /\ Len(calls) <= 1 + Len(sections) + 2 * Len(sections) + NumItems(sections)
    /\ Len(renders) <= 1
    /\ renders # <<>> =>
           /\ pc = "exited"
           /\ \A k \in 1..Len(sections) :
                  /\ CallsAt(<<3, k, 0>>) # {}
                  /\ \A j \in 1..Len(sections[k].items) : CallsAt(<<3, k, j + 1>>) # {}

\* a run of two sections and three items with every call made, the two
\* retries included: 1 + S + 2*S + I calls, then the render
C23_Witness ==
    /\ pc = "exited"
    /\ Len(renders) = 1
    /\ Len(sections) = 2
    /\ NumItems(sections) = 3
    /\ Len(calls) = 1 + 2 + 2 * 2 + 3
    /\ calls[2].site = "section_guidance"
    /\ calls[4].site = "extract_section_text"
    /\ calls[5].site = "extract_section_text_retry"
    /\ calls[Len(calls)].site = "generate_item_answer"

====
